---- MODULE Spec2Model ----
(***************************************************************************)
(* Process lifecycle and live console bridge of the server manager         *)
(* (src/utils/server_manager.py): the registry of running servers, the     *)
(* start / stop / is_running / send_command operations as the threads of   *)
(* the web front end execute them, the managed processes with their stdin  *)
(* pipes, and the console monitor with its authentication automation.      *)
(***************************************************************************)
EXTENDS Integers, Sequences, FiniteSets, TLC

(***************************************************************************)
(* Program constants.                                                      *)
(***************************************************************************)
MAX_BUFFER_LINES == 1000
AUTH_LOGIN_COOLDOWN == 20
STOP_WAIT_TIMEOUT == 10
TERMINATE_WAIT_TIMEOUT == 5

(***************************************************************************)
(* Bounds of the model.                                                    *)
(***************************************************************************)
MaxSpawns == 2
MaxCommands == 2

ServerIds == {"srv"}
Threads == {"t1", "t2"}
OperatorCommands == {"say hi", "/auth status"}
NEWLINE == "\n"

VARIABLES
    running_servers,   \* _running_servers: dict server_id -> server_info
    console_buffers,   \* _console_buffers: dict server_id -> list of lines
    procs,             \* every process spawned so far (index = process handle)
    files,             \* per server: HytaleServer.jar and Assets.zip exist
    callers,           \* the front-end threads that issue calls
    th,                \* per thread: position inside the call it executes
    ret,               \* per thread: the call that returned last
    commands_sent,     \* number of operator send_command calls made
    sent_log,          \* the send_command calls that returned True, in order
    now,               \* time.time()
    alphabet,          \* the kinds of console line the process prints
    lines_left,        \* how many more lines the process prints
    mon,               \* per server: the locals of monitor_console_output
    consumed,          \* the lines the monitor has processed, with their times
    emits,             \* the socketio events emitted so far
    auth_trace,        \* the authentication states passed through
    logins,            \* the automatic '/auth login device' commands written
    webhook_queue,     \* _webhook_queues[server_id]: the bounded task queue
    webhook_diag,      \* _webhook_diagnostics[server_id]: the counters
    dispatcher,        \* the bridge thread inside _dispatch_webhook
    worker,            \* the webhook worker thread
    offered,           \* the entries _dispatch_webhook was called to enqueue
    evicted,           \* the entries taken out of a full queue undelivered
    deliveries,        \* the deliveries the worker has ended, in order
    responses,         \* what the webhook endpoint may answer
    output_queue,      \* server_info['output_queue']
    queued,            \* every entry put on the output queue so far
    produced,          \* per stream: the lines read from the pipe so far
    log_dir,           \* the logs directory: path -> file (0: no such file)
    log_files,         \* the files that exist or existed, by file number
    fs_clock,          \* the clock the file system stamps mtimes with
    tailer,            \* the locals of tail_server_logs
    caught_up,         \* the tailer found nothing to read since the last write
    bridge,            \* the bridge thread: its place and the locals of its loop
    stop_event,        \* _stop_flags[server_id]
    gotale_status,     \* _status[server_id] and the last gotale_status broadcast
    pingers,           \* the keepalive threads that have not ended
    ensure,            \* _lock and the threads inside ensure_bridge
    route              \* the status label, the request routes and monitor_servers

lifecycle_vars == <<running_servers, console_buffers, procs, files, callers,
                    th, ret, commands_sent, sent_log>>
monitor_vars == <<now, alphabet, lines_left, mon, consumed, emits, auth_trace,
                  logins>>
webhook_vars == <<webhook_queue, webhook_diag, dispatcher, worker, offered,
                  evicted, deliveries, responses>>
stream_vars == <<output_queue, queued, produced, log_dir, log_files, fs_clock,
                 tailer, caught_up>>
bridge_vars == <<bridge, stop_event, gotale_status, pingers, ensure>>
route_vars == <<route>>
\* What the calls of the front-end threads leave alone.
background_vars ==
    <<monitor_vars, webhook_vars, stream_vars, bridge_vars, route_vars>>
vars == <<lifecycle_vars, monitor_vars, webhook_vars, stream_vars, bridge_vars,
         route_vars>>

(***************************************************************************)
(* Dictionaries: a function whose domain is the set of present keys.       *)
(***************************************************************************)
DictSet(d, k, v) == [x \in (DOMAIN d) \cup {k} |-> IF x = k THEN v ELSE d[x]]
DictDel(d, k) == [x \in (DOMAIN d) \ {k} |-> d[x]]
EmptyDict == [x \in {} |-> 0]

NoSnapshot == [rs |-> EmptyDict, cb |-> EmptyDict, pr |-> <<>>, fl |-> EmptyDict]

\* What a call finds and leaves is recorded where calls do not overlap.
Observe(rs, cb, pr) ==
    IF Cardinality(callers) = 1
    THEN [rs |-> rs, cb |-> cb, pr |-> pr, fl |-> files]
    ELSE NoSnapshot

Snapshot == Observe(running_servers, console_buffers, procs)

\* One step of a call, with the seconds the call waited before taking it.
Step(name, waited) == [step |-> name, waited |-> waited]

IdleThread == [pc |-> "idle", sid |-> "", process |-> 0, timer |-> 0,
               trace |-> <<>>, pre |-> NoSnapshot]
NoReturn == [op |-> "none", sid |-> "", val |-> "none", trace |-> <<>>,
             pre |-> NoSnapshot, post |-> NoSnapshot]

(***************************************************************************)
(* The callers of the manager: besides the front-end threads that call as  *)
(* they like, a request thread inside a route of server_routes.py and the  *)
(* monitor_servers thread of app.py, which call what their code calls.     *)
(***************************************************************************)
\* No route is being served and monitor_servers sleeps; the label of the
\* server (servers.status in the database) is 'offline'.
NoRoutes ==
    [status |-> "offline",
     pending |-> [t \in Threads |-> "none"],
     request |-> [pc |-> "idle", kind |-> "none"],
     poll |-> [pc |-> "idle", seen |-> "offline"],
     requests |-> 0,
     crashes |-> 0]

\* Thread t may begin the call op now.
MayCall(t, op) ==
    \/ t \in callers
    \/ route.pending[t] = op /\ ret[t].op = "none"

(***************************************************************************)
(* subprocess.Popen(..., stdin=PIPE, stdout=PIPE, stderr=PIPE)             *)
(***************************************************************************)
NewProcess(sid) ==
    [sid |-> sid, state |-> "alive", pipe |-> "open", has_stdin |-> TRUE,
     stdin |-> <<>>, threads |-> {}]

\* The daemon threads start_server starts for a process: the two pipe
\* readers, the console monitor and the log tailer.
BackgroundThreads == {"stdout", "stderr", "monitor", "log_tail"}

None == "None"
NoPayload == <<>>
AUTH_PERSISTENCE_TYPES == <<"Encrypted">>

\* The wall clock when the module is imported: far beyond the cooldown.
Epoch == 5 * AUTH_LOGIN_COOLDOWN

ServerInfo(process) ==
    [process |-> process,
     auth_pending |-> FALSE,
     auth_url |-> None,
     auth_code |-> None,
     start_time |-> now,
     auth_status_requested |-> FALSE,
     auth_checked |-> FALSE,
     auth_persistence_attempted |-> FALSE,
     auth_persistence_done |-> FALSE,
     auth_persistence_index |-> 0,
     auth_persistence_exhausted |-> FALSE,
     auth_persistence_types |-> AUTH_PERSISTENCE_TYPES,
     last_auth_payload |-> NoPayload,
     auth_login_requested_at |-> 0]

InitialBuffer == <<[kind |-> "Starting server process...", n |-> 0]>>

(***************************************************************************)
(* send_command(server_id, command): the branch the call takes, its return *)
(* value and what reaches the stdin pipe.                                  *)
(***************************************************************************)
SendOutcome(sid) ==
    IF sid \notin DOMAIN running_servers THEN "not_running"
    ELSE LET p == running_servers[sid].process IN
         IF procs[p].state # "alive" THEN "terminated"
         ELSE IF ~procs[p].has_stdin THEN "no_stdin"
         ELSE IF procs[p].pipe # "open" THEN "write_error"
         ELSE "ok"

SendReturnUncaught(outcome) ==
    IF outcome = "ok" THEN "True"
    ELSE IF outcome = "write_error" THEN "raised" ELSE "False"

SendReturn(outcome) == IF outcome = "ok" THEN "True" ELSE "False"

StdinWriteNoNewline(stdin, command) == stdin \o <<command>>

StdinWrite(stdin, command) == stdin \o <<command, NEWLINE>>

ProcsAfterSend(sid, command) ==
    IF SendOutcome(sid) = "ok"
    THEN [procs EXCEPT ![running_servers[sid].process].stdin =
                           StdinWrite(@, command)]
    ELSE procs

LogAfterSend(sid, command) ==
    IF SendReturn(SendOutcome(sid)) = "True"
    THEN Append(sent_log, [process |-> running_servers[sid].process,
                           command |-> command])
    ELSE sent_log

(***************************************************************************)
(* A call returns: the thread is idle again and the call is recorded with  *)
(* the state it found and the state it left.                               *)
(***************************************************************************)
Finish(t, op, sid, val, pre, trace) ==
    /\ th' = [th EXCEPT ![t] = IdleThread]
    /\ ret' = [ret EXCEPT ![t] =
                  [op |-> op, sid |-> sid, val |-> val,
                   trace |-> IF Cardinality(callers) = 1 THEN trace ELSE <<>>,
                   pre |-> pre,
                   post |-> Observe(running_servers', console_buffers',
                                    procs')]]

Spawning == {t \in Threads : th[t].pc = "start_spawn"}

(***************************************************************************)
(* start_server                                                            *)
(***************************************************************************)
StartRejectsFilesOnly(sid) == ~files[sid]

StartRejects(sid) == sid \in DOMAIN running_servers \/ ~files[sid]

StartCheck(t, sid) ==
    /\ MayCall(t, "start")
    /\ th[t].pc = "idle"
    /\ Len(procs) + Cardinality(Spawning) < MaxSpawns
    /\ UNCHANGED <<background_vars, running_servers, console_buffers, procs, files, callers,
                   commands_sent, sent_log>>
    /\ IF StartRejects(sid)
       THEN Finish(t, "start", sid, "False", Snapshot,
                   <<Step(IF sid \in DOMAIN running_servers
                          THEN "already_running" ELSE "missing_files", 0)>>)
       ELSE /\ th' = [th EXCEPT ![t] = [IdleThread EXCEPT !.pc = "start_spawn",
                                            !.sid = sid, !.pre = Snapshot]]
            /\ UNCHANGED ret

\* Popen started the process although the call goes on to fail.
ProcsAfterOrphanSpawn(sid) == Append(procs, NewProcess(sid))

\* Popen raised: there is no process.
ProcsAfterFailedSpawn(sid) == procs

StartSpawn(t) ==
    /\ th[t].pc = "start_spawn"
    /\ UNCHANGED <<background_vars, running_servers, console_buffers, files, callers,
                   commands_sent, sent_log>>
    /\ \E spawned \in BOOLEAN :
         IF spawned
         THEN /\ procs' = Append(procs, NewProcess(th[t].sid))
              /\ th' = [th EXCEPT ![t].pc = "start_insert",
                                  ![t].process = Len(procs) + 1]
              /\ UNCHANGED ret
         ELSE /\ procs' = ProcsAfterFailedSpawn(th[t].sid)
              /\ Finish(t, "start", th[t].sid, "False", th[t].pre,
                        <<Step("spawn_failed", 0)>>)

StartInsert(t) ==
    /\ th[t].pc = "start_insert"
    /\ running_servers' =
           DictSet(running_servers, th[t].sid, ServerInfo(th[t].process))
    /\ console_buffers' = DictSet(console_buffers, th[t].sid, InitialBuffer)
    /\ procs' = [procs EXCEPT ![th[t].process].threads = BackgroundThreads]
    /\ UNCHANGED <<background_vars, files, callers,
                   commands_sent, sent_log>>
    /\ Finish(t, "start", th[t].sid, "True", th[t].pre,
              <<Step("started", 0)>>)

(***************************************************************************)
(* stop_server                                                             *)
(***************************************************************************)
StopNotRunningSucceeds == "True"

StopNotRunningResult == "False"

StopWaitExpiredAtOnce(t) == TRUE

StopWaitExpired(t) == th[t].timer >= STOP_WAIT_TIMEOUT

TerminateWaitExpired(t) == th[t].timer >= TERMINATE_WAIT_TIMEOUT

StopCheck(t, sid) ==
    /\ MayCall(t, "stop")
    /\ th[t].pc = "idle"
    /\ UNCHANGED <<background_vars, running_servers, console_buffers, procs, files, callers,
                   commands_sent, sent_log>>
    /\ IF sid \notin DOMAIN running_servers
       THEN Finish(t, "stop", sid, StopNotRunningResult, Snapshot, <<>>)
       ELSE LET p == running_servers[sid].process IN
            /\ th' = [th EXCEPT ![t] =
                        [IdleThread EXCEPT
                           !.pc = IF procs[p].state = "alive"
                                  THEN "stop_send" ELSE "stop_del",
                           !.sid = sid, !.process = p, !.pre = Snapshot]]
            /\ UNCHANGED ret

StopSend(t) ==
    /\ th[t].pc = "stop_send"
    /\ procs' = ProcsAfterSend(th[t].sid, "stop")
    /\ sent_log' = LogAfterSend(th[t].sid, "stop")
    /\ th' = [th EXCEPT ![t].pc = "stop_wait", ![t].timer = 0,
                        ![t].trace = Append(@, Step("stop", 0))]
    /\ UNCHANGED <<background_vars, running_servers, console_buffers, files, callers, ret,
                   commands_sent>>

StopWait(t) ==
    /\ th[t].pc = "stop_wait"
    /\ UNCHANGED <<background_vars, running_servers, console_buffers, files, callers, ret,
                   commands_sent, sent_log, procs>>
    /\ \/ /\ procs[th[t].process].state = "exited"
          /\ th' = [th EXCEPT ![t].pc = "stop_del"]
       \/ /\ procs[th[t].process].state = "alive"
          /\ StopWaitExpired(t)
          /\ th' = [th EXCEPT ![t].pc = "stop_terminated", ![t].timer = 0,
                              ![t].trace = Append(@, Step("terminate",
                                                           th[t].timer))]

StopTerminated(t) ==
    /\ th[t].pc = "stop_terminated"
    /\ UNCHANGED <<background_vars, running_servers, console_buffers, files, callers, ret,
                   commands_sent, sent_log>>
    /\ \/ /\ procs[th[t].process].state = "exited"
          /\ procs' = procs
          /\ th' = [th EXCEPT ![t].pc = "stop_del"]
       \/ /\ procs[th[t].process].state = "alive"
          /\ TerminateWaitExpired(t)
          /\ procs' = [procs EXCEPT ![th[t].process].state = "exited",
                                    ![th[t].process].pipe = "broken"]
          /\ th' = [th EXCEPT ![t].pc = "stop_del",
                              ![t].trace = Append(@, Step("kill", th[t].timer))]

StopDel(t) ==
    /\ th[t].pc = "stop_del"
    /\ UNCHANGED <<background_vars, console_buffers, procs, files, callers, commands_sent,
                   sent_log>>
    /\ IF th[t].sid \in DOMAIN running_servers
       THEN /\ running_servers' = DictDel(running_servers, th[t].sid)
            /\ Finish(t, "stop", th[t].sid, "True", th[t].pre, th[t].trace)
       ELSE /\ running_servers' = running_servers
            /\ Finish(t, "stop", th[t].sid, "False", th[t].pre, th[t].trace)

(***************************************************************************)
(* The daemon threads of a run end by themselves: a pipe reader when the   *)
(* process has closed the pipe, the console monitor and the log tailer     *)
(* when the test of their while loop finds no record under the server ID.  *)
(***************************************************************************)
MayEnd(p, thread) ==
    IF thread \in {"stdout", "stderr"}
    THEN procs[p].state = "exited"
    ELSE procs[p].sid \notin DOMAIN running_servers

ThreadEnds(p, thread) ==
    /\ p \in DOMAIN procs
    /\ thread \in procs[p].threads
    /\ MayEnd(p, thread)
    /\ procs' = [procs EXCEPT ![p].threads = @ \ {thread}]
    /\ UNCHANGED <<background_vars, running_servers, console_buffers, files,
                   callers, th, ret, commands_sent, sent_log>>

(***************************************************************************)
(* is_server_running                                                       *)
(***************************************************************************)
RunCheck(t, sid) ==
    /\ MayCall(t, "is_running")
    /\ th[t].pc = "idle"
    /\ UNCHANGED <<background_vars, running_servers, console_buffers, procs, files, callers,
                   commands_sent, sent_log>>
    /\ IF sid \notin DOMAIN running_servers
       THEN Finish(t, "is_running", sid, "False", Snapshot, <<>>)
       ELSE LET p == running_servers[sid].process IN
            IF procs[p].state = "alive"
            THEN Finish(t, "is_running", sid, "True", Snapshot, <<>>)
            ELSE /\ th' = [th EXCEPT ![t] =
                             [IdleThread EXCEPT !.pc = "run_cleanup",
                                !.sid = sid, !.process = p, !.pre = Snapshot]]
                 /\ UNCHANGED ret

RegistryKept(sid) == running_servers

RegistryAfterCleanup(sid) ==
    IF sid \in DOMAIN running_servers
    THEN DictDel(running_servers, sid)
    ELSE running_servers

RunCleanup(t) ==
    /\ th[t].pc = "run_cleanup"
    /\ running_servers' = RegistryAfterCleanup(th[t].sid)
    /\ UNCHANGED <<background_vars, console_buffers, procs, files, callers, commands_sent,
                   sent_log>>
    /\ Finish(t, "is_running", th[t].sid, "False", th[t].pre, <<>>)

(***************************************************************************)
(* The routes of server_routes.py that start, stop and restart a server,   *)
(* and monitor_servers of app.py with its crash handler.  Each writes the  *)
(* status label around the calls it makes to the manager.                  *)
(***************************************************************************)
MaxRequests == 2
MaxCrashes == 2

RequestThread == "t1"
StatusMonitor == "t2"

RouteKinds == {"start", "stop", "restart"}

\* Everything but the label, the place of the two threads and the record
\* of the last call stays as it is.
RouteFrame ==
    UNCHANGED <<running_servers, console_buffers, procs, files, callers, th,
                commands_sent, sent_log, monitor_vars, webhook_vars,
                stream_vars, bridge_vars>>

\* Thread t is about to call op of the manager.
Invoke(r, t, op) == [r EXCEPT !.pending[t] = op]

Forget(t) == ret' = [ret EXCEPT ![t] = NoReturn]

\* The call op that thread t made has returned.
Returned(t, op) ==
    /\ route.pending[t] = op
    /\ th[t].pc = "idle"
    /\ ret[t].op = op

\* Server.update_status(server_id, label)
UpdateStatus(r, label) == [r EXCEPT !.status = label]

\* A request arrives: each of the three routes asks is_server_running first.
RouteBegin(kind) ==
    /\ route.request.pc = "idle"
    /\ route.requests < MaxRequests
    /\ route' = [Invoke(route, RequestThread, "is_running") EXCEPT
                    !.request = [pc |-> "polling", kind |-> kind],
                    !.requests = @ + 1]
    /\ Forget(RequestThread)
    /\ RouteFrame

RouteEnds(r) ==
    [r EXCEPT !.request = NoRoutes.request, !.pending[RequestThread] = "none"]

RouteStops(r) ==
    [Invoke(UpdateStatus(r, "stopping"), RequestThread, "stop") EXCEPT
        !.request.pc = "stopping"]

RouteStarts(r) ==
    [Invoke(UpdateStatus(r, "starting"), RequestThread, "start") EXCEPT
        !.request.pc = "starting"]

\* is_server_running has answered the route.
RoutePolled ==
    /\ route.request.pc = "polling"
    /\ Returned(RequestThread, "is_running")
    /\ LET running == ret[RequestThread].val = "True"
           kind == route.request.kind
       IN route' =
              CASE kind = "start" ->
                       IF running THEN RouteEnds(route) ELSE RouteStarts(route)
                [] kind = "stop" ->
                       IF running THEN RouteStops(route) ELSE RouteEnds(route)
                [] kind = "restart" ->
                       IF running THEN RouteStops(route) ELSE RouteStarts(route)
    /\ Forget(RequestThread)
    /\ RouteFrame

\* stop_server has returned to the stop route or to the restart route.
RouteStopped ==
    /\ route.request.pc = "stopping"
    /\ Returned(RequestThread, "stop")
    /\ LET success == ret[RequestThread].val = "True"
       IN route' =
              IF route.request.kind = "stop"
              THEN RouteEnds(UpdateStatus(route, IF success THEN "offline"
                                                 ELSE "online"))
              ELSE RouteStarts(route)
    /\ Forget(RequestThread)
    /\ RouteFrame

\* start_server has returned to the start route or to the restart route.
RouteStarted ==
    /\ route.request.pc = "starting"
    /\ Returned(RequestThread, "start")
    /\ LET success == ret[RequestThread].val = "True"
       IN route' = RouteEnds(UpdateStatus(route, IF success THEN "online"
                                                 ELSE "offline"))
    /\ Forget(RequestThread)
    /\ RouteFrame

\* monitor_servers reads the servers with their labels and asks
\* is_server_running.
PollBegin ==
    /\ route.poll.pc = "idle"
    /\ route' = [Invoke(route, StatusMonitor, "is_running") EXCEPT
                    !.poll = [pc |-> "polling", seen |-> route.status]]
    /\ Forget(StatusMonitor)
    /\ RouteFrame

PollEnds(r) ==
    [r EXCEPT !.poll.pc = "idle", !.pending[StatusMonitor] = "none"]

\* monitor_servers compares the answer with the label it has read.
PollReturned ==
    /\ route.poll.pc = "polling"
    /\ Returned(StatusMonitor, "is_running")
    /\ LET is_running == ret[StatusMonitor].val = "True"
       IN route' =
              IF is_running /\ route.poll.seen # "online"
              THEN PollEnds(UpdateStatus(route, "online"))
              ELSE IF ~is_running /\ route.poll.seen \in {"online", "starting"}
                   THEN [UpdateStatus(route, "offline") EXCEPT
                            !.poll.pc = "crashed",
                            !.pending[StatusMonitor] = "none"]
                   ELSE PollEnds(route)
    /\ Forget(StatusMonitor)
    /\ RouteFrame

\* _handle_server_crash with crash detection enabled.
HandleServerCrash(auto_restart) ==
    /\ route.poll.pc = "crashed"
    /\ LET noted == [route EXCEPT
                        !.crashes = IF @ < MaxCrashes THEN @ + 1 ELSE @]
       IN route' =
              IF auto_restart
              THEN [Invoke(UpdateStatus(noted, "starting"), StatusMonitor,
                           "start") EXCEPT !.poll.pc = "restarting"]
              ELSE PollEnds(noted)
    /\ Forget(StatusMonitor)
    /\ RouteFrame

\* start_server has returned to the crash handler.
RestartReturned ==
    /\ route.poll.pc = "restarting"
    /\ Returned(StatusMonitor, "start")
    /\ LET ok == ret[StatusMonitor].val = "True"
       IN route' = PollEnds(IF ok THEN route
                            ELSE UpdateStatus(route, "offline"))
    /\ Forget(StatusMonitor)
    /\ RouteFrame

(***************************************************************************)
(* send_command issued by an operator                                      *)
(***************************************************************************)
SendCommand(t, sid, command) ==
    /\ t \in callers
    /\ th[t].pc = "idle"
    /\ commands_sent < MaxCommands
    /\ commands_sent' = commands_sent + 1
    /\ procs' = ProcsAfterSend(sid, command)
    /\ sent_log' = LogAfterSend(sid, command)
    /\ UNCHANGED <<background_vars, running_servers, console_buffers, files, callers>>
    /\ Finish(t, "send_command", sid, SendReturn(SendOutcome(sid)), Snapshot,
              <<Step(SendOutcome(sid), 0)>>)

(***************************************************************************)
(* The environment: the managed process and the clock.                     *)
(***************************************************************************)
ProcessExit(p) ==
    /\ p \in DOMAIN procs
    /\ procs[p].state = "alive"
    /\ procs' = [procs EXCEPT ![p].state = "exited", ![p].pipe = "broken"]
    /\ UNCHANGED <<background_vars, running_servers, console_buffers, files, callers, th, ret,
                   commands_sent, sent_log>>

ProcessClosesStdin(p) ==
    /\ p \in DOMAIN procs
    /\ procs[p].state = "alive"
    /\ procs[p].pipe = "open"
    /\ procs' = [procs EXCEPT ![p].pipe = "broken"]
    /\ UNCHANGED <<background_vars, running_servers, console_buffers, files, callers, th, ret,
                   commands_sent, sent_log>>

FilesChange(sid) ==
    /\ files' = [files EXCEPT ![sid] = ~@]
    /\ UNCHANGED <<background_vars, running_servers, console_buffers, procs, callers, th, ret,
                   commands_sent, sent_log>>

WaitLimit(t) ==
    IF th[t].pc = "stop_wait" THEN STOP_WAIT_TIMEOUT
    ELSE IF th[t].pc = "stop_terminated" THEN TERMINATE_WAIT_TIMEOUT
    ELSE 0

Remaining(t) == WaitLimit(t) - th[t].timer

Waiting == {t \in Threads : Remaining(t) > 0}

\* Time passes until the earliest pending timeout of a waiting thread.
TimePasses ==
    /\ Waiting # {}
    /\ LET d == CHOOSE d \in {Remaining(t) : t \in Waiting} :
                   \A u \in Waiting : d <= Remaining(u)
       IN th' = [t \in Threads |->
                   IF t \in Waiting
                   THEN [th[t] EXCEPT !.timer = @ + d] ELSE th[t]]
    /\ UNCHANGED <<background_vars, running_servers, console_buffers, procs, files, callers,
                   ret, commands_sent, sent_log>>

(***************************************************************************)
(* monitor_console_output: the console lines and the patterns they match.  *)
(***************************************************************************)
MaxLines == 3
MaxOverflow == 3

LineKinds == {"plain", "no_tokens", "url", "code", "success", "status_ok",
              "status_bad", "persistence_unknown", "persistence_ok"}

\* The compiled patterns a line of each kind is matched by.
Matches(line, pattern) ==
    CASE pattern = "no_tokens_pattern" -> line.kind = "no_tokens"
      [] pattern = "auth_url_pattern" -> line.kind = "url"
      [] pattern = "auth_code_pattern" -> line.kind = "code"
      [] pattern = "auth_success_pattern" -> line.kind = "success"
      [] pattern = "auth_ok_pattern" -> line.kind = "status_ok"
      [] pattern = "auth_bad_pattern" -> line.kind = "status_bad"
      [] pattern = "persistence_unknown_pattern" ->
             line.kind = "persistence_unknown"
      [] pattern = "persistence_any_pattern" ->
             line.kind \in {"persistence_unknown", "persistence_ok"}

\* The user code a url line carries and the code a code line reports.
UrlUserCode(line) == "A"
ReportedCode(line) == "B"

DeviceUrl(code) ==
    CASE code = "A" -> "https://accounts.hytale.com/device?user_code=A"
      [] code = "B" -> "https://accounts.hytale.com/device?user_code=B"

PersistenceCommand(type) == "/auth persistence " \o type

NewMonitor ==
    [auth_command_sent |-> FALSE, pending_auth_url |-> None,
     pending_auth_code |-> None]

\* The state a pass of the monitor loop works on.
Context(sid) ==
    [info |-> running_servers[sid], mon |-> mon[sid], procs |-> procs,
     sent_log |-> sent_log, now |-> now, emits |-> emits,
     trace |-> auth_trace, logins |-> logins, ok |-> FALSE]

Transition(trace, state) ==
    IF trace # <<>> /\ trace[Len(trace)] = state THEN trace
    ELSE Append(trace, state)

\* send_command called from the monitor thread.
Send(c, sid, command) ==
    LET p == c.info.process
        c1 == IF SendOutcome(sid) = "ok"
              THEN [c EXCEPT !.procs[p].stdin = StdinWrite(@, command)]
              ELSE c
        ok == SendReturn(SendOutcome(sid)) = "True"
    IN [c1 EXCEPT !.ok = ok,
                  !.sent_log = IF ok
                               THEN Append(@, [process |-> p,
                                               command |-> command])
                               ELSE @]

Sleep(c, seconds) == [c EXCEPT !.now = @ + seconds]

ShouldRequestAlways(info, time) == "allowed"

ShouldRequestAuthLogin(info, time) ==
    IF info.auth_pending /\ info.auth_url # None THEN "already_pending"
    ELSE IF time - info.auth_login_requested_at < AUTH_LOGIN_COOLDOWN
         THEN "cooldown"
         ELSE "allowed"

RequestAuthLogin(c, sid) ==
    IF sid \notin DOMAIN running_servers THEN [c EXCEPT !.ok = FALSE]
    ELSE IF ShouldRequestAuthLogin(c.info, c.now) # "allowed"
         THEN [c EXCEPT !.ok = FALSE]
         ELSE LET c1 == Send(c, sid, "/auth login device") IN
              IF c1.ok
              THEN [c1 EXCEPT
                      !.info.auth_login_requested_at = c.now,
                      !.info.auth_pending = TRUE,
                      !.trace = Transition(@, "LoginRequested"),
                      !.logins = Append(@,
                          [at |-> c.now,
                           url_pending |-> c.info.auth_pending
                                           /\ c.info.auth_url # None])]
              ELSE c1

\* The candidate list is the record's own if it has one (setdefault).
SendAuthPersistence(c, sid) ==
    LET types == c.info.auth_persistence_types
        index == c.info.auth_persistence_index
    IN IF index >= Len(types)
       THEN [c EXCEPT !.info.auth_persistence_exhausted = TRUE]
       ELSE Send([c EXCEPT !.info.auth_persistence_attempted = TRUE], sid,
                 PersistenceCommand(types[index + 1]))

\* The start of every pass: '/auth status' once, 2 s after the start.
StatusRequest(c, sid) ==
    IF ~c.info.auth_status_requested /\ c.now - c.info.start_time >= 2
    THEN Send([c EXCEPT !.info.auth_status_requested = TRUE], sid,
              "/auth status")
    ELSE c

BufferKeepAll(buffer, line) == Append(buffer, line)

BufferAppend(buffer, line) ==
    LET b == Append(buffer, line) IN
    IF Len(b) > MAX_BUFFER_LINES
    THEN SubSeq(b, Len(b) - MAX_BUFFER_LINES + 1, Len(b))
    ELSE b

ConsoleOutput(c, sid, line) ==
    [c EXCEPT !.emits = Append(@, <<"console_output", line>>)]

LoginTriggerNoLatch(c, sid, reason) ==
    [RequestAuthLogin(Sleep(c, 1), sid) EXCEPT !.mon.auth_command_sent = FALSE]

LoginTrigger(c, sid, reason) ==
    LET c1 == RequestAuthLogin(Sleep([c EXCEPT !.mon.auth_command_sent = TRUE],
                                     1), sid)
    IN [c1 EXCEPT !.mon.auth_command_sent = c1.ok]

NoTokens(c, sid, line) ==
    IF Matches(line, "no_tokens_pattern") /\ ~c.mon.auth_command_sent
    THEN LoginTrigger(c, sid, "no_tokens")
    ELSE c

AuthUrl(c, sid, line) ==
    IF Matches(line, "auth_url_pattern")
    THEN [c EXCEPT !.mon.pending_auth_url = DeviceUrl(UrlUserCode(line)),
                   !.info.auth_url = DeviceUrl(UrlUserCode(line)),
                   !.info.auth_pending = TRUE,
                   !.trace = Transition(@, "CodePending")]
    ELSE c

AuthCode(c, sid, line) ==
    IF Matches(line, "auth_code_pattern")
    THEN LET c1 == [c EXCEPT !.mon.pending_auth_code = ReportedCode(line),
                             !.info.auth_code = ReportedCode(line)]
         IN IF c1.info.auth_url = None /\ c1.mon.pending_auth_url = None
            THEN [c1 EXCEPT
                    !.mon.pending_auth_url = DeviceUrl(ReportedCode(line)),
                    !.info.auth_url = DeviceUrl(ReportedCode(line)),
                    !.info.auth_pending = TRUE,
                    !.trace = Transition(@, "CodePending")]
            ELSE c1
    ELSE c

EmitAuthRequiredAlways(c, payload) ==
    [c EXCEPT !.emits = Append(@, <<"auth_required", payload>>),
              !.info.last_auth_payload = payload]

EmitAuthRequired(c, payload) ==
    IF payload # c.info.last_auth_payload
    THEN [c EXCEPT !.emits = Append(@, <<"auth_required", payload>>),
                   !.info.last_auth_payload = payload]
    ELSE c

AuthRequired(c, sid, line) ==
    IF c.mon.pending_auth_url # None /\ c.info.auth_pending
    THEN LET payload == <<c.mon.pending_auth_url,
                          IF c.mon.pending_auth_code # None
                          THEN c.mon.pending_auth_code ELSE "See URL">>
         IN [EmitAuthRequired(c, payload) EXCEPT
                !.mon.pending_auth_url = None,
                !.mon.pending_auth_code = None]
    ELSE IF c.mon.pending_auth_code # None /\ c.info.auth_pending
            /\ c.info.auth_url # None
         THEN LET payload == <<c.info.auth_url, c.mon.pending_auth_code>>
              IN [EmitAuthRequired(c, payload) EXCEPT
                     !.mon.pending_auth_code = None]
         ELSE c

\* A success line that withdraws the pending flag and keeps the prompt.
AuthSuccessKeepsPrompt(c, sid, line) ==
    IF Matches(line, "auth_success_pattern") /\ c.info.auth_pending
    THEN [c EXCEPT !.info.auth_pending = FALSE,
                   !.mon.auth_command_sent = FALSE,
                   !.info.auth_checked = TRUE,
                   !.info.last_auth_payload = NoPayload]
    ELSE c

AuthSuccess(c, sid, line) ==
    IF Matches(line, "auth_success_pattern") /\ c.info.auth_pending
    THEN LET c1 == [c EXCEPT !.info.auth_pending = FALSE,
                             !.info.auth_url = None,
                             !.info.auth_code = None,
                             !.mon.auth_command_sent = FALSE,
                             !.info.auth_checked = TRUE,
                             !.info.last_auth_payload = NoPayload,
                             !.trace = Transition(@, "Authenticating")]
             c2 == Sleep(c1, 1)
             c3 == IF ~c2.info.auth_persistence_done
                   THEN SendAuthPersistence(c2, sid)
                   ELSE c2
         IN [c3 EXCEPT !.emits = Append(@, <<"auth_success", sid>>),
                       !.trace = Transition(@, "Authenticated")]
    ELSE c

AuthStatus(c, sid, line) ==
    IF Matches(line, "auth_ok_pattern")
    THEN LET c1 == [c EXCEPT !.info.auth_pending = FALSE,
                             !.info.auth_url = None,
                             !.info.auth_code = None,
                             !.info.last_auth_payload = NoPayload,
                             !.trace = Transition(@, "Authenticated")]
         IN IF ~c1.info.auth_checked
            THEN [c1 EXCEPT !.info.auth_checked = TRUE,
                            !.emits = Append(@, <<"auth_success", sid>>)]
            ELSE c1
    ELSE IF Matches(line, "auth_bad_pattern") /\ ~c.mon.auth_command_sent
         THEN LoginTrigger(c, sid, "auth_status")
         ELSE c

PersistenceIndexKept(index) == index

PersistenceIndexAfterRejection(index) == index + 1

Persistence(c, sid, line) ==
    IF /\ Matches(line, "persistence_unknown_pattern")
       /\ c.info.auth_persistence_attempted
       /\ ~c.info.auth_persistence_done
       /\ ~c.info.auth_persistence_exhausted
    THEN SendAuthPersistence(
             [c EXCEPT !.info.auth_persistence_index =
                           PersistenceIndexAfterRejection(@),
                       !.info.auth_persistence_attempted = FALSE], sid)
    ELSE IF /\ Matches(line, "persistence_any_pattern")
            /\ ~Matches(line, "persistence_unknown_pattern")
            /\ c.info.auth_persistence_attempted
         THEN [c EXCEPT !.info.auth_persistence_done = TRUE]
         ELSE c

\* One pass of the loop that takes a line from the output queue.
ProcessLine(c, sid, line) ==
    Persistence(
      AuthStatus(
        AuthSuccess(
          AuthRequired(
            AuthCode(
              AuthUrl(
                NoTokens(
                  ConsoleOutput(StatusRequest(c, sid), sid, line),
                  sid, line), sid, line), sid, line), sid, line), sid, line),
        sid, line), sid, line)

Commit(c, sid) ==
    /\ running_servers' = [running_servers EXCEPT ![sid] = c.info]
    /\ mon' = [mon EXCEPT ![sid] = c.mon]
    /\ procs' = c.procs
    /\ sent_log' = c.sent_log
    /\ now' = c.now
    /\ emits' = c.emits
    /\ auth_trace' = c.trace
    /\ logins' = c.logins

MonitorLine(sid, kind) ==
    /\ sid \in DOMAIN running_servers
    /\ sid \in DOMAIN mon
    /\ kind \in alphabet
    /\ lines_left > 0
    /\ LET line == [kind |-> kind, n |-> Len(consumed) + 1] IN
       /\ Commit(ProcessLine(Context(sid), sid, line), sid)
       /\ console_buffers' =
              IF sid \in DOMAIN console_buffers
              THEN [console_buffers EXCEPT ![sid] = BufferAppend(@, line)]
              ELSE console_buffers
       /\ consumed' = Append(consumed, [line |-> line, at |-> now])
    /\ lines_left' = lines_left - 1
    /\ UNCHANGED <<files, callers, th, ret, commands_sent, alphabet,
                   webhook_vars, stream_vars, bridge_vars, route_vars>>

\* A pass of the loop that finds the output queue empty.
MonitorIdle(sid) ==
    /\ sid \in DOMAIN running_servers
    /\ sid \in DOMAIN mon
    /\ ~running_servers[sid].auth_status_requested
    /\ now - running_servers[sid].start_time >= 2
    /\ Commit(StatusRequest(Context(sid), sid), sid)
    /\ UNCHANGED <<console_buffers, files, callers, th, ret, commands_sent,
                   alphabet, lines_left, consumed, webhook_vars, stream_vars, bridge_vars,
                   route_vars>>

\* The instants at which the monitor's timed conditions change.
Deadlines ==
    UNION {{running_servers[sid].start_time + 2,
            running_servers[sid].auth_login_requested_at
                + AUTH_LOGIN_COOLDOWN} : sid \in DOMAIN running_servers}

ClockAdvances ==
    /\ \E d \in Deadlines, early \in {0, 1} :
          /\ d - early > now
          /\ now' = d - early
    /\ UNCHANGED <<lifecycle_vars, alphabet, lines_left, mon, consumed, emits,
                   auth_trace, logins, webhook_vars, stream_vars, bridge_vars,
                   route_vars>>

(***************************************************************************)
(* The webhook queue of the event bridge (src/utils/gotale_bridge.py): the *)
(* bridge thread dispatches, the worker thread delivers.                   *)
(***************************************************************************)
WEBHOOK_MAX_ATTEMPTS == 4
RETRY_AFTER_MIN == 1
RETRY_AFTER_MAX == 30

\* The capacity the queue is created with (the module itself passes
\* _WEBHOOK_QUEUE_MAXSIZE = 1000; Queue behaves alike for every capacity)
\* and the number of events the bridge receives.
QueueCapacity == 3
MaxDispatches == 5

Entry(n) == [id |-> n]
NoEntry == Entry(0)

NewDiag ==
    [sent_total |-> 0, failed_total |-> 0, dropped_total |-> 0,
     enqueued_total |-> 0, rate_limited_total |-> 0]

IdleDispatcher == [pc |-> "idle", entry |-> NoEntry]
IdleWorker == [pc |-> "idle", entry |-> NoEntry, attempt |-> 0, trace |-> <<>>,
               diag |-> NewDiag]

\* The text of a Retry-After header or of the body's retry_after member.
Absent == [kind |-> "absent", value |-> 0]
Unparsable == [kind |-> "invalid", value |-> 0]
NotANumber == [kind |-> "nan", value |-> 0]
Seconds(n) == [kind |-> "number", value |-> n]

\* A float: a number of seconds, or NaN.
Float(n) == [nan |-> FALSE, value |-> n]
NaN == [nan |-> TRUE, value |-> 0]

\* float(text), with 0.0 where the code catches the conversion error.
ParseFloat(text) ==
    IF text.kind = "nan" THEN NaN
    ELSE IF text.kind = "number" THEN Float(text.value)
    ELSE Float(0)

Truthy(f) == f.nan \/ f.value # 0

\* max(a, b) and min(a, b) of Python: b replaces a only if it compares
\* greater (smaller), and every comparison with NaN is false.
FloatMax(a, b) == IF ~a.nan /\ ~b.nan /\ b.value > a.value THEN b ELSE a
FloatMin(a, b) == IF ~a.nan /\ ~b.nan /\ b.value < a.value THEN b ELSE a

RetryAfter(response) ==
    LET header == IF response.header.kind # "absent"
                  THEN ParseFloat(response.header) ELSE Float(0)
    IN IF ~Truthy(header) /\ response.body.kind # "absent"
       THEN ParseFloat(response.body)
       ELSE header

RetryWaitUnclamped(response) == RetryAfter(response)

RetryWait(response) ==
    FloatMin(FloatMax(RetryAfter(response), Float(RETRY_AFTER_MIN)),
             Float(RETRY_AFTER_MAX))

Response(status, header, body) ==
    [status |-> status, header |-> header, body |-> body]

\* What the endpoint can answer: success, rate limiting with the ways of
\* giving the delay, a server error, a client error, no answer (status 0).
RetryTexts == {Absent, Unparsable, NotANumber, Seconds(0), Seconds(7),
               Seconds(45)}
Responses ==
    {Response(200, Absent, Absent), Response(500, Absent, Absent),
     Response(404, Absent, Absent), Response(0, Absent, Absent)}
    \cup {Response(429, h, b) : h \in RetryTexts, b \in {Absent, Seconds(3)}}

Attempt(outcome, wait, rate_limited) ==
    [outcome |-> outcome, wait |-> wait, rate_limited |-> rate_limited]

\* One pass of the attempt loop of _send_webhook.
SendWebhookAttempt(attempt, response) ==
    IF response.status = 200 THEN Attempt("sent", 0, FALSE)
    ELSE IF response.status = 429
    THEN IF attempt < WEBHOOK_MAX_ATTEMPTS
         THEN IF RetryWait(response).nan
              THEN Attempt("raised", 0, FALSE)
              ELSE Attempt("retry", RetryWait(response).value, FALSE)
         ELSE Attempt("failed", 0, TRUE)
    ELSE IF (response.status = 0 \/ response.status \in 500..599)
            /\ attempt < WEBHOOK_MAX_ATTEMPTS
    THEN Attempt("retry", attempt, FALSE)
    ELSE Attempt("failed", 0, FALSE)

NoteWebhookFailure(diag, rate_limited) ==
    [diag EXCEPT !.failed_total = @ + 1,
                 !.rate_limited_total = IF rate_limited THEN @ + 1 ELSE @]

NoteWebhookSuccess(diag) == [diag EXCEPT !.sent_total = @ + 1]

\* _dispatch_webhook up to its first put_nowait; an event without an
\* enabled webhook of its type is not enqueued.
Dispatch(eligible) ==
    /\ dispatcher.pc = "idle"
    /\ Len(offered) < MaxDispatches
    /\ LET entry == Entry(Len(offered) + 1) IN
       /\ offered' = Append(offered, [entry |-> entry, eligible |-> eligible])
       /\ IF ~eligible
          THEN UNCHANGED <<webhook_queue, webhook_diag, dispatcher, worker>>
          ELSE /\ worker' = IF worker.pc = "dead" THEN IdleWorker ELSE worker
               /\ IF Len(webhook_queue) < QueueCapacity
                  THEN /\ webhook_queue' = Append(webhook_queue, entry)
                       /\ webhook_diag' =
                              [webhook_diag EXCEPT !.enqueued_total = @ + 1]
                       /\ dispatcher' = dispatcher
                  ELSE /\ webhook_queue' = webhook_queue
                       /\ webhook_diag' =
                              [webhook_diag EXCEPT !.dropped_total = @ + 1]
                       /\ dispatcher' = [pc |-> "evict", entry |-> entry]
    /\ UNCHANGED <<lifecycle_vars, monitor_vars, stream_vars, bridge_vars,
                   route_vars, evicted, deliveries,
                   responses>>

\* get_nowait on the full queue; queue.Empty is swallowed.
DispatchEvict ==
    /\ dispatcher.pc = "evict"
    /\ IF webhook_queue # <<>>
       THEN /\ evicted' = Append(evicted, Head(webhook_queue))
            /\ webhook_queue' = Tail(webhook_queue)
       ELSE UNCHANGED <<evicted, webhook_queue>>
    /\ dispatcher' = [dispatcher EXCEPT !.pc = "put_again"]
    /\ UNCHANGED <<lifecycle_vars, monitor_vars, stream_vars, bridge_vars,
                   route_vars, webhook_diag, worker, offered,
                   deliveries, responses>>

\* The second put_nowait; a queue that is full again loses the event.
DispatchPutAgain ==
    /\ dispatcher.pc = "put_again"
    /\ IF Len(webhook_queue) < QueueCapacity
       THEN /\ webhook_queue' = Append(webhook_queue, dispatcher.entry)
            /\ webhook_diag' = [webhook_diag EXCEPT !.enqueued_total = @ + 1]
       ELSE UNCHANGED <<webhook_queue, webhook_diag>>
    /\ dispatcher' = IdleDispatcher
    /\ UNCHANGED <<lifecycle_vars, monitor_vars, stream_vars, bridge_vars,
                   route_vars, worker, offered, evicted,
                   deliveries, responses>>

\* The worker takes the oldest entry of the queue.
WorkerGet ==
    /\ worker.pc = "idle"
    /\ webhook_queue # <<>>
    /\ worker' = [pc |-> "sending", entry |-> Head(webhook_queue),
                  attempt |-> 1, trace |-> <<>>, diag |-> webhook_diag]
    /\ webhook_queue' = Tail(webhook_queue)
    /\ UNCHANGED <<lifecycle_vars, monitor_vars, stream_vars, bridge_vars,
                   route_vars, webhook_diag, dispatcher,
                   offered, evicted, deliveries, responses>>

Delivery(outcome, trace, diag) ==
    [entry |-> worker.entry, outcome |-> outcome, trace |-> trace,
     before |-> worker.diag, after |-> diag]

\* One HTTP attempt of the delivery in progress, and what follows it.
WorkerAttempt(response) ==
    /\ worker.pc = "sending"
    /\ response \in responses
    /\ LET a == SendWebhookAttempt(worker.attempt, response)
           trace == Append(worker.trace,
                           [response |-> response, outcome |-> a.outcome,
                            wait |-> a.wait])
           diag == IF a.outcome = "sent" THEN NoteWebhookSuccess(webhook_diag)
                   ELSE IF a.outcome = "failed"
                   THEN NoteWebhookFailure(webhook_diag, a.rate_limited)
                   ELSE webhook_diag
       IN /\ webhook_diag' = diag
          /\ IF a.outcome = "retry"
             THEN /\ worker' = [worker EXCEPT !.attempt = @ + 1,
                                              !.trace = trace]
                  /\ deliveries' = deliveries
             ELSE /\ worker' = [IdleWorker EXCEPT
                                   !.pc = IF a.outcome = "raised"
                                          THEN "dead" ELSE "idle"]
                  /\ deliveries' =
                         Append(deliveries, Delivery(a.outcome, trace, diag))
    /\ UNCHANGED <<lifecycle_vars, monitor_vars, stream_vars, bridge_vars,
                   route_vars, webhook_queue, dispatcher,
                   offered, evicted, responses>>

(***************************************************************************)
(* The producers of the console: the two pipe readers (enqueue_output) and *)
(* the log tailer (tail_server_logs) put entries on the record's output    *)
(* queue, and the monitor takes them off.                                  *)
(***************************************************************************)
MaxLogWrites == 3
MaxPipeLines == 2

LATEST_LOG == "latest.log"
LogPaths == {LATEST_LOG, "server.log", "other.log"}
Pipes == {"stdout", "stderr"}
NoFile == 0
LARGE_LOG_NOTICE == "Log output is large; tailing from end."

\* A file of the logs directory: the number of lines written to it, its
\* modification time, and whether it has grown beyond 2 MiB.
NewLogFile(mtime) == [lines |-> 0, mtime |-> mtime, large |-> FALSE]

\* The tailer before its first pass: last_log_path = None, log_file = None.
NewTailer == [last_log_path |-> "None", file |-> NoFile, pos |-> 0]

\* A queue entry (stream_type, line).  A line is identified by its source
\* and its number within the source; a log line also by the file and the
\* place in the file it was read from.
QueueEntry(type, kind, n, file, idx) ==
    [type |-> type,
     line |-> [kind |-> kind, n |-> n, src |-> type, file |-> file,
               idx |-> idx]]

Put(entries) ==
    /\ output_queue' = output_queue \o entries
    /\ queued' = queued \o entries

\* log_candidates: the files of the directory whose name does not end in
\* '.gz'.
LogCandidates == {p \in LogPaths : log_dir[p] # NoFile}

\* newest_log: latest.log when it is a file, else the candidate with the
\* greatest modification time.
NewestLog ==
    IF log_dir[LATEST_LOG] # NoFile THEN LATEST_LOG
    ELSE CHOOSE p \in LogCandidates :
             \A q \in LogCandidates :
                 log_files[log_dir[q]].mtime <= log_files[log_dir[p]].mtime

\* newest_log != last_log_path
SwitchByPath(newest) == newest # tailer.last_log_path

\* One pass of the loop of tail_server_logs.
TailPass(sid) ==
    /\ sid \in DOMAIN running_servers
    /\ IF LogCandidates = {}
       THEN /\ caught_up' = TRUE
            /\ UNCHANGED <<output_queue, queued, produced, tailer>>
       ELSE LET newest == NewestLog
                file == log_dir[newest]
                switch == SwitchByPath(newest)
                seek_end == switch /\ log_files[file].large
                opened == IF switch
                          THEN [last_log_path |-> newest,
                                file |-> file,
                                pos |-> IF seek_end
                                        THEN log_files[file].lines ELSE 0]
                          ELSE tailer
                notice == IF seek_end
                          THEN <<QueueEntry("system", LARGE_LOG_NOTICE,
                                            produced["system"] + 1,
                                            NoFile, 0)>>
                          ELSE <<>>
                has_line == /\ opened.file # NoFile
                            /\ opened.pos < log_files[opened.file].lines
                read == IF has_line
                        THEN <<QueueEntry("log", "plain", produced["log"] + 1,
                                          opened.file, opened.pos + 1)>>
                        ELSE <<>>
            IN /\ tailer' = IF has_line
                            THEN [opened EXCEPT !.pos = @ + 1] ELSE opened
               /\ Put(notice \o read)
               /\ produced' = [produced EXCEPT
                                 !["system"] = @ + Len(notice),
                                 !["log"] = @ + Len(read)]
               /\ caught_up' = ~has_line
    /\ UNCHANGED <<lifecycle_vars, monitor_vars, webhook_vars, bridge_vars,
                   route_vars, log_dir,
                   log_files, fs_clock>>

\* enqueue_output: a reader thread reads the next line the process wrote to
\* its pipe and puts it on the queue.
ReaderPut(sid, pipe) ==
    /\ sid \in DOMAIN running_servers
    /\ produced[pipe] < MaxPipeLines
    /\ Put(<<QueueEntry(pipe, "plain", produced[pipe] + 1, NoFile, 0)>>)
    /\ produced' = [produced EXCEPT ![pipe] = @ + 1]
    /\ UNCHANGED <<lifecycle_vars, monitor_vars, webhook_vars, bridge_vars,
                   route_vars, log_dir,
                   log_files, fs_clock, tailer, caught_up>>

\* A queue that hands out its newest entry first.
QueueGetNewest(queue) ==
    [entry |-> queue[Len(queue)], rest |-> SubSeq(queue, 1, Len(queue) - 1)]

\* queue.get on a queue.Queue: the oldest entry, and what stays queued.
QueueGet(queue) == [entry |-> Head(queue), rest |-> Tail(queue)]

\* The monitor takes the oldest entry of the queue and deals with its line
\* as MonitorLine does.
MonitorTake(sid) ==
    /\ sid \in DOMAIN running_servers
    /\ sid \in DOMAIN mon
    /\ output_queue # <<>>
    /\ LET line == QueueGet(output_queue).entry.line IN
       /\ Commit(ProcessLine(Context(sid), sid, line), sid)
       /\ console_buffers' =
              IF sid \in DOMAIN console_buffers
              THEN [console_buffers EXCEPT ![sid] = BufferAppend(@, line)]
              ELSE console_buffers
       /\ consumed' = Append(consumed, [line |-> line, at |-> now])
    /\ output_queue' = QueueGet(output_queue).rest
    /\ UNCHANGED <<files, callers, th, ret, commands_sent, alphabet,
                   lines_left, webhook_vars, bridge_vars, route_vars, queued, produced,
                   log_dir, log_files, fs_clock, tailer, caught_up>>

\* The server process, or its logging framework, writes to the logs
\* directory.  Every write is stamped with a later time than the one before.
LogWrite(dir, written) ==
    /\ fs_clock < MaxLogWrites
    /\ fs_clock' = fs_clock + 1
    /\ log_dir' = dir
    /\ log_files' = written
    /\ caught_up' = FALSE
    /\ UNCHANGED <<lifecycle_vars, monitor_vars, webhook_vars, bridge_vars,
                   route_vars, output_queue,
                   queued, produced, tailer>>

\* A new, empty log file appears under a free name.
LogCreate(p) ==
    /\ log_dir[p] = NoFile
    /\ LogWrite([log_dir EXCEPT ![p] = Len(log_files) + 1],
                Append(log_files, NewLogFile(fs_clock + 1)))

\* A line is appended to a file of the directory; the file may grow beyond
\* 2 MiB by it.
LogAppend(p, large) ==
    /\ log_dir[p] # NoFile
    /\ log_files[log_dir[p]].large => large
    /\ LogWrite(log_dir,
                [log_files EXCEPT ![log_dir[p]] =
                    [lines |-> @.lines + 1, mtime |-> fs_clock + 1,
                     large |-> large]])

\* A file is archived: renamed to a name ending in '.gz', or removed.
LogArchive(p) ==
    /\ log_dir[p] # NoFile
    /\ LogWrite([log_dir EXCEPT ![p] = NoFile], log_files)

\* A file is renamed to a free name of the directory.
LogRename(p, q) ==
    /\ log_dir[p] # NoFile
    /\ log_dir[q] = NoFile
    /\ LogWrite([log_dir EXCEPT ![p] = NoFile, ![q] = log_dir[p]], log_files)

\* No reader and no tailer has run, and the logs directory is empty.
InitNoStreams ==
    /\ output_queue = <<>>
    /\ queued = <<>>
    /\ produced = [s \in Pipes \cup {"log", "system"} |-> 0]
    /\ log_dir = [p \in LogPaths |-> NoFile]
    /\ log_files = <<>>
    /\ fs_clock = 0
    /\ tailer = NewTailer
    /\ caught_up = FALSE

(***************************************************************************)
(* The event bridge: ensure_bridge starts one thread per server, and the   *)
(* thread (_bridge_loop) keeps a WebSocket connection to the plugin open,  *)
(* trying each of ws_urls in turn and waiting 5 seconds between rounds.    *)
(***************************************************************************)
RECONNECT_DELAY == 5
MaxUrls == 2

\* The bridge thread before ensure_bridge has started it.  websocket tells
\* whether the websocket-client package could be imported.
NoBridge(websocket) ==
    [pc |-> "absent", websocket |-> websocket, urls |-> 1, candidate |-> 1,
     opened |-> FALSE, ping_stop |-> FALSE, event |-> "none",
     waited |-> "fresh", delay |-> 0]

NoStatus == [connected |-> "unset", broadcast |-> "none"]

\* _set_status(connected)
SetStatus(connected) == [connected |-> connected, broadcast |-> connected]

\* thread.is_alive()
BridgeAlive == bridge.pc \notin {"absent", "disabled", "done"}

\* ensure_bridge(server_id, settings, ...): settings tell whether the
\* bridge is enabled and how many URLs there are to try.
EnsureBridge(enabled, urls) ==
    /\ IF ~enabled
       THEN /\ gotale_status' = [gotale_status EXCEPT !.connected = "False"]
            /\ UNCHANGED <<bridge, stop_event>>
       ELSE IF BridgeAlive
            THEN UNCHANGED <<bridge, stop_event, gotale_status>>
            ELSE /\ stop_event' = FALSE
                 /\ bridge' = [NoBridge(bridge.websocket) EXCEPT
                                  !.pc = "start", !.urls = urls]
                 /\ UNCHANGED gotale_status
    /\ UNCHANGED <<lifecycle_vars, monitor_vars, webhook_vars, stream_vars, route_vars,
                   ensure,
                   pingers>>

\* _bridge_loop up to its loop: without websocket-client the thread ends.
BridgeStart ==
    /\ bridge.pc = "start"
    /\ IF bridge.websocket
       THEN /\ bridge' = [bridge EXCEPT !.pc = "loop"]
            /\ gotale_status' = [gotale_status EXCEPT !.connected = "False"]
       ELSE /\ bridge' = [bridge EXCEPT !.pc = "disabled"]
            /\ UNCHANGED gotale_status
    /\ UNCHANGED <<lifecycle_vars, monitor_vars, webhook_vars, stream_vars, route_vars,
                   ensure,
                   stop_event, pingers>>

\* A connection attempt begins: WebSocketApp(candidate_url, ...).run_forever().
\* The attempt is delayed when no close or error has happened since the
\* 5 second wait, or none at all.
ConnectAttempt(b, candidate) ==
    [b EXCEPT !.pc = "connecting", !.candidate = candidate, !.opened = FALSE,
              !.event = "none",
              !.delay = IF b.waited = "no" THEN 0 ELSE RECONNECT_DELAY]

\* The top of the while loop: the stop flag is tested, a new ping_stop is
\* made, the webhook worker is restarted if it has died, and the first URL
\* is tried.  A keepalive thread that is still running finds the new
\* ping_stop from now on.
BridgeIterate ==
    /\ bridge.pc = "loop"
    /\ IF stop_event
       THEN /\ bridge' = [bridge EXCEPT !.pc = "done"]
            /\ UNCHANGED <<worker, pingers>>
       ELSE /\ bridge' = ConnectAttempt([bridge EXCEPT !.ping_stop = FALSE], 1)
            /\ worker' = IF worker.pc = "dead" THEN IdleWorker ELSE worker
            /\ pingers' = IF pingers = {} THEN {} ELSE {"stale"}
    /\ UNCHANGED <<lifecycle_vars, monitor_vars, stream_vars, webhook_queue,
                   webhook_diag, dispatcher, offered, evicted, deliveries,
                   responses, stop_event, gotale_status, ensure, route_vars>>

\* on_open: the connection is established and the keepalive thread starts.
ConnectOpens ==
    /\ bridge.pc = "connecting"
    /\ bridge' = [bridge EXCEPT !.pc = "open", !.opened = TRUE,
                                !.ping_stop = FALSE]
    /\ gotale_status' = SetStatus("True")
    /\ pingers' = pingers \cup {"current"}
    /\ UNCHANGED <<lifecycle_vars, monitor_vars, webhook_vars, stream_vars, route_vars,
                   ensure,
                   stop_event>>

\* on_close and on_error end in different states only by the event noted.
Disconnected(b, event) ==
    [b EXCEPT !.pc = "closed", !.ping_stop = TRUE, !.event = event,
              !.waited = "no"]

\* on_close / on_error, called by run_forever before it returns: the
\* attempt failed, or the open connection was closed or broke.
ConnectionEnds(event) ==
    /\ bridge.pc \in {"connecting", "open"}
    /\ bridge.pc = "connecting" => event = "error"
    /\ bridge' = Disconnected(bridge, event)
    /\ gotale_status' = SetStatus("False")
    /\ UNCHANGED <<lifecycle_vars, monitor_vars, webhook_vars, stream_vars, route_vars,
                   ensure,
                   stop_event, pingers>>

\* What follows the URL just tried: the next URL, or the 5 second wait.
NextCandidate(b) ==
    IF b.candidate < b.urls
    THEN ConnectAttempt(b, b.candidate + 1)
    ELSE [b EXCEPT !.pc = "waiting"]

\* run_forever has returned: the loop over ws_urls is left if the
\* connection had been open, and goes on to the next URL if not.
RunForeverReturns ==
    /\ bridge.pc = "closed"
    /\ bridge' = IF bridge.opened
                 THEN [bridge EXCEPT !.pc = "waiting"]
                 ELSE NextCandidate(bridge)
    /\ UNCHANGED <<lifecycle_vars, monitor_vars, webhook_vars, stream_vars, route_vars,
                   ensure,
                   stop_event, gotale_status, pingers>>

\* WebSocketApp(...) or run_forever raised: the handler sets the status and
\* continues with the next URL.
RunForeverRaises ==
    /\ bridge.pc \in {"connecting", "open"}
    /\ bridge' = NextCandidate(bridge)
    /\ gotale_status' = SetStatus("False")
    /\ UNCHANGED <<lifecycle_vars, monitor_vars, webhook_vars, stream_vars, route_vars,
                   ensure,
                   stop_event, pingers>>

\* The loop gives up after a wait whether or not the stop flag is set.
AfterWaitGivesUp(stopped) == "done"

\* if stop_event.wait(5): break
AfterWait(stopped) == IF stopped THEN "done" ELSE "loop"

BridgeWaitEnds ==
    /\ bridge.pc = "waiting"
    /\ bridge' = [bridge EXCEPT
                    !.pc = AfterWait(stop_event),
                    !.waited = IF stop_event THEN @ ELSE "yes"]
    /\ UNCHANGED <<lifecycle_vars, monitor_vars, webhook_vars, stream_vars, route_vars,
                   ensure,
                   stop_event, gotale_status, pingers>>

\* _ping_loop: the keepalive thread of the connection ends once it finds
\* ping_stop set; one left over from an earlier round ends when its send on
\* the closed connection raises.
PingLoopEnds(pinger) ==
    /\ pinger \in pingers
    /\ pinger = "current" => bridge.ping_stop
    /\ pingers' = pingers \ {pinger}
    /\ UNCHANGED <<lifecycle_vars, monitor_vars, webhook_vars, stream_vars, route_vars,
                   ensure,
                   bridge, stop_event, gotale_status>>

\* The stop flag is signalled by the owner of the bridge.
StopFlagSet ==
    /\ BridgeAlive
    /\ ~stop_event
    /\ stop_event' = TRUE
    /\ UNCHANGED <<lifecycle_vars, monitor_vars, webhook_vars, stream_vars, route_vars,
                   ensure,
                   bridge, gotale_status, pingers>>

(***************************************************************************)
(* ensure_bridge step by step, as concurrent callers execute it.           *)
(***************************************************************************)
MaxEnsureCalls == 3

\* Nobody is inside ensure_bridge; `displaced` counts the bridge threads
\* that were alive when another thread took their place in _threads.
NoEnsure ==
    [lock |-> "free", pc |-> [t \in Threads |-> "idle"],
     urls |-> [t \in Threads |-> 1], calls |-> 0, displaced |-> 0]

\* _lock can be acquired.
LockIgnored == TRUE

LockFree == ensure.lock = "free"

\* The call begins: with the bridge disabled it records the status and
\* returns, otherwise it goes for the lock.
EnsureEnter(t, enabled, urls) ==
    /\ ensure.pc[t] = "idle"
    /\ ensure.calls < MaxEnsureCalls
    /\ IF ~enabled
       THEN /\ gotale_status' = [gotale_status EXCEPT !.connected = "False"]
            /\ ensure' = [ensure EXCEPT !.calls = @ + 1]
       ELSE /\ ensure' = [ensure EXCEPT !.calls = @ + 1,
                                        !.pc[t] = "acquire",
                                        !.urls[t] = urls]
            /\ UNCHANGED gotale_status
    /\ UNCHANGED <<lifecycle_vars, monitor_vars, webhook_vars, stream_vars,
                   route_vars,
                   bridge, stop_event, pingers>>

\* with _lock:
EnsureAcquire(t) ==
    /\ ensure.pc[t] = "acquire"
    /\ LockFree
    /\ ensure' = [ensure EXCEPT !.lock = t, !.pc[t] = "check"]
    /\ UNCHANGED <<lifecycle_vars, monitor_vars, webhook_vars, stream_vars,
                   route_vars,
                   bridge, stop_event, gotale_status, pingers>>

\* The test of the registered thread; a new stop flag when none is alive.
EnsureCheck(t) ==
    /\ ensure.pc[t] = "check"
    /\ IF BridgeAlive
       THEN /\ ensure' = [ensure EXCEPT !.lock = "free", !.pc[t] = "idle"]
            /\ UNCHANGED stop_event
       ELSE /\ ensure' = [ensure EXCEPT !.pc[t] = "create"]
            /\ stop_event' = FALSE
    /\ UNCHANGED <<lifecycle_vars, monitor_vars, webhook_vars, stream_vars,
                   route_vars,
                   bridge, gotale_status, pingers>>

\* The new thread is registered and started, and the lock released.
EnsureCreate(t) ==
    /\ ensure.pc[t] = "create"
    /\ bridge' = [NoBridge(bridge.websocket) EXCEPT
                     !.pc = "start", !.urls = ensure.urls[t]]
    /\ ensure' = [ensure EXCEPT
                     !.lock = "free", !.pc[t] = "idle",
                     !.displaced = IF BridgeAlive THEN @ + 1 ELSE @]
    /\ UNCHANGED <<lifecycle_vars, monitor_vars, webhook_vars, stream_vars,
                   route_vars,
                   stop_event, gotale_status, pingers>>

\* ensure_bridge has not been called.
InitBridgeAbsent(websocket) ==
    /\ bridge = NoBridge(websocket)
    /\ stop_event = FALSE
    /\ gotale_status = NoStatus
    /\ pingers = {}
    /\ ensure = NoEnsure

\* No bridge is configured: nothing is dispatched.
InitNoBridge ==
    /\ webhook_queue = <<>>
    /\ webhook_diag = NewDiag
    /\ dispatcher = IdleDispatcher
    /\ worker = IdleWorker
    /\ offered = <<>>
    /\ evicted = <<>>
    /\ deliveries = <<>>
    /\ responses = {}
    /\ InitBridgeAbsent(TRUE)

(***************************************************************************)
(* Specifications.  Init is the state of a freshly imported module; the    *)
(* two specifications differ in how many front-end threads issue calls.    *)
(***************************************************************************)
InitShared ==
    /\ running_servers = EmptyDict
    /\ console_buffers = EmptyDict
    /\ procs = <<>>
    /\ files \in [ServerIds -> BOOLEAN]
    /\ th = [t \in Threads |-> IdleThread]
    /\ ret = [t \in Threads |-> NoReturn]
    /\ commands_sent = 0
    /\ sent_log = <<>>

\* The registry on its own: no console line is printed.
InitQuiet ==
    /\ now = Epoch
    /\ alphabet = {}
    /\ lines_left = 0
    /\ mon = EmptyDict
    /\ consumed = <<>>
    /\ emits = <<>>
    /\ auth_trace = <<>>
    /\ logins = <<>>
    /\ route = NoRoutes

Init ==
    InitShared /\ InitQuiet /\ InitNoBridge /\ InitNoStreams /\ callers = Threads

InitSeq ==
    InitShared /\ InitQuiet /\ InitNoBridge /\ InitNoStreams /\ callers = {"t1"}

Lifecycle ==
    \/ \E t \in Threads, sid \in ServerIds : StartCheck(t, sid)
    \/ \E t \in Threads : StartSpawn(t)
    \/ \E t \in Threads : StartInsert(t)
    \/ \E t \in Threads, sid \in ServerIds : StopCheck(t, sid)
    \/ \E t \in Threads : StopSend(t)
    \/ \E t \in Threads : StopWait(t)
    \/ \E t \in Threads : StopTerminated(t)
    \/ \E t \in Threads : StopDel(t)
    \/ \E t \in Threads, sid \in ServerIds : RunCheck(t, sid)
    \/ \E t \in Threads : RunCleanup(t)
    \/ \E p \in 1..MaxSpawns : ProcessExit(p)
    \/ TimePasses

\* Concurrent front-end threads working on the registry.
Next == Lifecycle

\* A request thread that starts and stops the server while the status
\* monitor of app.py polls is_server_running.
NextPolled ==
    \/ \E sid \in ServerIds : StartCheck(RequestThread, sid)
    \/ StartSpawn(RequestThread)
    \/ StartInsert(RequestThread)
    \/ \E sid \in ServerIds : StopCheck(RequestThread, sid)
    \/ StopSend(RequestThread)
    \/ StopWait(RequestThread)
    \/ StopTerminated(RequestThread)
    \/ StopDel(RequestThread)
    \/ \E sid \in ServerIds : RunCheck(StatusMonitor, sid)
    \/ RunCleanup(StatusMonitor)
    \/ \E p \in 1..MaxSpawns : ProcessExit(p)
    \/ TimePasses

SpecPolled == Init /\ [][NextPolled]_vars

\* One front-end thread, with the command channel and the file system.
NextSeq ==
    \/ Lifecycle
    \/ \E t \in Threads, sid \in ServerIds, c \in OperatorCommands :
           SendCommand(t, sid, c)
    \/ \E p \in 1..MaxSpawns : ProcessClosesStdin(p)
    \/ \E sid \in ServerIds : FilesChange(sid)

\* A server that has just been started, and its console monitor.
StartedFor(types, calling) ==
    /\ now = Epoch
    /\ running_servers =
           [sid \in ServerIds |->
               [ServerInfo(1) EXCEPT !.auth_persistence_types = types]]
    /\ console_buffers = [sid \in ServerIds |-> InitialBuffer]
    /\ procs = <<[NewProcess(CHOOSE sid \in ServerIds : TRUE)
                     EXCEPT !.threads = BackgroundThreads]>>
    /\ files = [sid \in ServerIds |-> TRUE]
    /\ callers = calling
    /\ th = [t \in Threads |-> IdleThread]
    /\ ret = [t \in Threads |-> NoReturn]
    /\ commands_sent = 0
    /\ sent_log = <<>>
    /\ mon = [sid \in ServerIds |-> NewMonitor]
    /\ consumed = <<>>
    /\ emits = <<>>
    /\ auth_trace = <<"Unauthenticated">>
    /\ logins = <<>>
    /\ route = [NoRoutes EXCEPT !.status = "online"]
    /\ InitNoBridge

\* No front-end thread issues calls.
StartedWith(types) == StartedFor(types, {})

InitStarted == StartedWith(AUTH_PERSISTENCE_TYPES) /\ InitNoStreams

InitMonitor == InitStarted /\ alphabet = LineKinds /\ lines_left = MaxLines

InitBuffer ==
    /\ InitStarted
    /\ alphabet = {"plain"}
    /\ lines_left = MAX_BUFFER_LINES + MaxOverflow

NextMonitor ==
    \/ \E sid \in ServerIds, kind \in LineKinds : MonitorLine(sid, kind)
    \/ \E sid \in ServerIds : MonitorIdle(sid)
    \/ \E p \in 1..MaxSpawns : ProcessExit(p)
    \/ ClockAdvances

\* The candidate lists a server record can carry: the module's list, and
\* longer ones a caller of send_auth_persistence has put into the record.
MaxCandidates == 2
MaxPersistenceLines == 5

CandidateTypes == AUTH_PERSISTENCE_TYPES \o <<"Memory", "Plain", "Keyring">>

CandidateLists == {SubSeq(CandidateTypes, 1, n) : n \in 1..MaxCandidates}

\* A code line acts on the retry as a url line does, and a bad status line
\* as a 'no tokens' line does.
PersistenceLineKinds == LineKinds \ {"code", "status_bad"}

InitPersistence ==
    /\ \E types \in CandidateLists : StartedWith(types)
    /\ InitNoStreams
    /\ alphabet = PersistenceLineKinds
    /\ lines_left = MaxPersistenceLines

NextPersistence ==
    \/ \E sid \in ServerIds, kind \in LineKinds : MonitorLine(sid, kind)
    \/ \E sid \in ServerIds : MonitorIdle(sid)

NextBuffer ==
    \E sid \in ServerIds, kind \in LineKinds : MonitorLine(sid, kind)

Spec == Init /\ [][Next]_vars

SpecMonitor == InitMonitor /\ [][NextMonitor]_vars

SpecBuffer == InitBuffer /\ [][NextBuffer]_vars

\* The event bridge of a server that is not started: events arrive and
\* the endpoint accepts or refuses each message at once.
InitWebhook ==
    /\ InitShared /\ InitQuiet /\ InitNoStreams /\ callers = {}
    /\ InitBridgeAbsent(TRUE)
    /\ files = [sid \in ServerIds |-> TRUE]
    /\ webhook_queue = <<>>
    /\ webhook_diag = NewDiag
    /\ dispatcher = IdleDispatcher
    /\ worker = IdleWorker
    /\ offered = <<>>
    /\ evicted = <<>>
    /\ deliveries = <<>>
    /\ responses = {Response(200, Absent, Absent), Response(404, Absent, Absent)}

NextWebhook ==
    \/ \E eligible \in BOOLEAN : Dispatch(eligible)
    \/ DispatchEvict
    \/ DispatchPutAgain
    \/ WorkerGet
    \/ \E response \in Responses : WorkerAttempt(response)

SpecWebhook == InitWebhook /\ [][NextWebhook]_vars

\* One event has been enqueued; the endpoint answers in the given ways.
DeliveryWith(answers) ==
    /\ InitShared /\ InitQuiet /\ InitNoStreams /\ callers = {}
    /\ InitBridgeAbsent(TRUE)
    /\ files = [sid \in ServerIds |-> TRUE]
    /\ webhook_queue = <<Entry(1)>>
    /\ webhook_diag = [NewDiag EXCEPT !.enqueued_total = 1]
    /\ dispatcher = IdleDispatcher
    /\ worker = IdleWorker
    /\ offered = <<[entry |-> Entry(1), eligible |-> TRUE]>>
    /\ evicted = <<>>
    /\ deliveries = <<>>
    /\ responses = answers

InitDelivery == DeliveryWith(Responses)

NextDelivery ==
    \/ WorkerGet
    \/ \E response \in Responses : WorkerAttempt(response)

SpecDelivery == InitDelivery /\ [][NextDelivery]_vars

\* The event bridge of a server whose plugin accepts, refuses, closes and
\* breaks connections as it likes.
InitBridge ==
    /\ InitShared /\ InitQuiet /\ InitNoStreams /\ callers = {}
    /\ files = [sid \in ServerIds |-> TRUE]
    /\ webhook_queue = <<>>
    /\ webhook_diag = NewDiag
    /\ dispatcher = IdleDispatcher
    /\ worker = IdleWorker
    /\ offered = <<>>
    /\ evicted = <<>>
    /\ deliveries = <<>>
    /\ responses = {}
    /\ \E websocket \in BOOLEAN : InitBridgeAbsent(websocket)

\* The steps the bridge thread takes by itself: a connection attempt ends
\* one way or another, but an open connection may stay open for ever.
BridgeProgress ==
    \/ BridgeStart
    \/ BridgeIterate
    \/ bridge.pc = "connecting" /\ ConnectOpens
    \/ bridge.pc = "connecting" /\ ConnectionEnds("error")
    \/ RunForeverReturns
    \/ BridgeWaitEnds

NextBridge ==
    \/ \E enabled \in BOOLEAN, urls \in 1..MaxUrls : EnsureBridge(enabled, urls)
    \/ BridgeStart
    \/ BridgeIterate
    \/ ConnectOpens
    \/ \E event \in {"close", "error"} : ConnectionEnds(event)
    \/ RunForeverReturns
    \/ RunForeverRaises
    \/ BridgeWaitEnds
    \/ \E pinger \in {"current", "stale"} : PingLoopEnds(pinger)
    \/ StopFlagSet

SpecBridge == InitBridge /\ [][NextBridge]_vars /\ WF_vars(BridgeProgress)

\* The bridge with ensure_bridge called from several threads at once.
NextEnsure ==
    \/ \E t \in Threads, enabled \in BOOLEAN, urls \in 1..MaxUrls :
           EnsureEnter(t, enabled, urls)
    \/ \E t \in Threads : EnsureAcquire(t)
    \/ \E t \in Threads : EnsureCheck(t)
    \/ \E t \in Threads : EnsureCreate(t)
    \/ BridgeStart
    \/ BridgeIterate
    \/ ConnectOpens
    \/ \E event \in {"close", "error"} : ConnectionEnds(event)
    \/ RunForeverReturns
    \/ BridgeWaitEnds
    \/ StopFlagSet

SpecEnsure == InitBridge /\ [][NextEnsure]_vars

SpecPersistence == InitPersistence /\ [][NextPersistence]_vars

\* A started server whose process writes its logs while the tailer runs.
InitTail ==
    /\ StartedWith(AUTH_PERSISTENCE_TYPES)
    /\ InitNoStreams
    /\ alphabet = {}
    /\ lines_left = 0

LogWrites ==
    \/ \E p \in LogPaths : LogCreate(p)
    \/ \E p \in LogPaths, large \in BOOLEAN : LogAppend(p, large)
    \/ \E p \in LogPaths : LogArchive(p)
    \/ \E p, q \in LogPaths : LogRename(p, q)

NextTail ==
    \/ LogWrites
    \/ \E sid \in ServerIds : TailPass(sid)

SpecTail == InitTail /\ [][NextTail]_vars

\* A server that logs to latest.log and rotates it by renaming.
RotatingLog ==
    \/ LogCreate(LATEST_LOG)
    \/ LogAppend(LATEST_LOG, FALSE)
    \/ LogRename(LATEST_LOG, "server.log")

\* The three producers of one run and the monitor that consumes them.
NextStreams ==
    \/ \E sid \in ServerIds, pipe \in Pipes : ReaderPut(sid, pipe)
    \/ \E sid \in ServerIds : TailPass(sid)
    \/ \E sid \in ServerIds : MonitorTake(sid)
    \/ RotatingLog

SpecStreams == InitTail /\ [][NextStreams]_vars

SpecSeq == InitSeq /\ [][NextSeq]_vars

\* The web application: a request thread serving the start, stop and
\* restart routes one after the other, and monitor_servers.
InitRoutes ==
    InitShared /\ InitQuiet /\ InitNoBridge /\ InitNoStreams /\ callers = {}

MonitorServers ==
    \/ PollBegin
    \/ PollReturned
    \/ \E auto_restart \in BOOLEAN : HandleServerCrash(auto_restart)
    \/ RestartReturned

NextRoutes ==
    \/ \E kind \in RouteKinds : RouteBegin(kind)
    \/ RoutePolled
    \/ RouteStopped
    \/ RouteStarted
    \/ MonitorServers
    \/ Lifecycle

SpecRoutes == InitRoutes /\ [][NextRoutes]_vars

\* Process p has been sent the stop command.
ToldToStop(p) ==
    \E i \in DOMAIN sent_log :
        sent_log[i].process = p /\ sent_log[i].command = "stop"

\* A started server that only the stop route ends: a process exits when
\* it has been told to, or is killed by stop_server.
ExitOnStop(p) == ToldToStop(p) /\ ProcessExit(p)

NextStopRoute ==
    \/ RouteBegin("stop")
    \/ RoutePolled
    \/ RouteStopped
    \/ MonitorServers
    \/ \E t \in Threads, sid \in ServerIds : RunCheck(t, sid)
    \/ \E t \in Threads : RunCleanup(t)
    \/ \E sid \in ServerIds : StopCheck(RequestThread, sid)
    \/ StopSend(RequestThread)
    \/ StopWait(RequestThread)
    \/ StopTerminated(RequestThread)
    \/ StopDel(RequestThread)
    \/ \E sid \in ServerIds : StartCheck(StatusMonitor, sid)
    \/ StartSpawn(StatusMonitor)
    \/ StartInsert(StatusMonitor)
    \/ \E p \in 1..MaxSpawns : ExitOnStop(p)
    \/ TimePasses

SpecStopRoute == InitTail /\ [][NextStopRoute]_vars

\* A started server whose output is read while the process exits, the
\* status monitor polls and a request thread stops it.  The console monitor
\* keeps running: it takes a line whenever its loop lets it.
InitDrain ==
    /\ StartedFor(AUTH_PERSISTENCE_TYPES, Threads)
    /\ InitNoStreams
    /\ alphabet = {}
    /\ lines_left = 0

NextDrain ==
    \/ \E sid \in ServerIds, pipe \in Pipes : ReaderPut(sid, pipe)
    \/ \E sid \in ServerIds : MonitorTake(sid)
    \/ \E p \in 1..MaxSpawns : ProcessExit(p)
    \/ \E sid \in ServerIds : RunCheck(StatusMonitor, sid)
    \/ RunCleanup(StatusMonitor)
    \/ \E sid \in ServerIds : StopCheck(RequestThread, sid)
    \/ StopSend(RequestThread)
    \/ StopWait(RequestThread)
    \/ StopDel(RequestThread)

SpecDrain ==
    InitDrain /\ [][NextDrain]_vars
        /\ WF_vars(\E sid \in ServerIds : MonitorTake(sid))

\* One front-end thread, and the daemon threads of the runs it starts.
NextThreads ==
    \/ Lifecycle
    \/ \E p \in 1..MaxSpawns, thread \in BackgroundThreads : ThreadEnds(p, thread)

SpecThreads == InitSeq /\ [][NextThreads]_vars

\* The front-end thread keeps running and the clock advances.
StopProgress ==
    \E t \in Threads :
        StopSend(t) \/ StopWait(t) \/ StopTerminated(t) \/ StopDel(t)

\* One front-end thread working on the registry, scheduled fairly.
NextStop ==
    \/ Lifecycle
    \/ \E p \in 1..MaxSpawns : ProcessClosesStdin(p)

SpecSeqFair ==
    InitSeq /\ [][NextStop]_vars /\ WF_vars(StopProgress) /\ WF_vars(TimePasses)

(***************************************************************************)
(* Properties.                                                             *)
(***************************************************************************)
LiveProcesses(pr, sid) ==
    {p \in DOMAIN pr : pr[p].sid = sid /\ pr[p].state = "alive"}

Registered(snap, sid) == sid \in DOMAIN snap.rs

RegisteredAlive(snap, sid) ==
    /\ sid \in DOMAIN snap.rs
    /\ snap.pr[snap.rs[sid].process].state = "alive"

StartSucceeded(sid) ==
    {t \in Threads : ret[t].op = "start" /\ ret[t].sid = sid
                     /\ ret[t].val = "True"}

\* C1: while no process of a server has exited (so no Stop and no exit came
\* between the Start calls), at most one Start call for that server has
\* returned success and at most one live process exists for it.
C1_ConcurrentStartExclusive ==
    \A sid \in ServerIds :
        (\A p \in DOMAIN procs : procs[p].sid = sid => procs[p].state = "alive")
        => /\ Cardinality(LiveProcesses(procs, sid)) <= 1
           /\ Cardinality(StartSucceeded(sid)) <= 1

\* C2: a Start call that finds the server registered with a live process
\* (the earlier Start, no Stop and no exit since) returns failure, spawns
\* nothing and leaves exactly that one live process registered.
C2_SecondStartFails ==
    \A t \in Threads :
        LET r == ret[t] IN
        (r.op = "start" /\ RegisteredAlive(r.pre, r.sid))
        => /\ r.val = "False"
           /\ r.post.pr = r.pre.pr
           /\ r.post.rs = r.pre.rs
           /\ LiveProcesses(r.post.pr, r.sid) = {r.post.rs[r.sid].process}

C2_Witness ==
    \E t \in Threads :
        /\ ret[t].op = "start"
        /\ RegisteredAlive(ret[t].pre, ret[t].sid)
        /\ ret[t].val = "False"

\* C3: IsRunning returns true exactly while the started process is
\* registered and alive; a live process stays registered until it exits or
\* Stop ends it; once IsRunning has returned false, or Stop success, the
\* record is absent; and a Start that finds no record, the files present and
\* a spawn that succeeds returns success and registers the new process.
C3_RunningUntilExitOrStop ==
    /\ \A p \in DOMAIN procs :
           procs[p].state = "alive"
           => \/ /\ procs[p].sid \in DOMAIN running_servers
                 /\ running_servers[procs[p].sid].process = p
              \/ \E t \in Threads :
                     th[t].pc = "start_insert" /\ th[t].process = p
    /\ \A t \in Threads :
        LET r == ret[t] IN
        /\ r.op = "is_running"
           => /\ (r.val = "True") = RegisteredAlive(r.pre, r.sid)
              /\ r.val \in {"True", "False"}
              /\ r.val = "False" => ~Registered(r.post, r.sid)
        /\ (r.op = "stop" /\ r.val = "True") => ~Registered(r.post, r.sid)
        /\ (r.op = "start" /\ ~Registered(r.pre, r.sid) /\ r.pre.fl[r.sid]
            /\ r.trace # <<Step("spawn_failed", 0)>>)
           => /\ r.val = "True"
              /\ Registered(r.post, r.sid)
              /\ Len(r.post.pr) = Len(r.pre.pr) + 1
              /\ r.post.rs[r.sid].process = Len(r.post.pr)

\* A Start succeeded again for a server whose earlier processes have exited
\* and whose record was removed.
C3_Witness ==
    \E t \in Threads :
        /\ ret[t].op = "start" /\ ret[t].val = "True"
        /\ Len(ret[t].pre.pr) >= 1
        /\ ~Registered(ret[t].pre, ret[t].sid)
        /\ \A p \in DOMAIN ret[t].pre.pr : ret[t].pre.pr[p].state = "exited"

NoRunningProcess(snap, sid) == ~RegisteredAlive(snap, sid)

StopWasNoOp(r) ==
    /\ r.val = "False"
    /\ r.post.rs = r.pre.rs
    /\ r.post.cb = r.pre.cb
    /\ r.post.pr = r.pre.pr

\* C4 as stated: whenever the server has no running process, Stop returns
\* failure and changes nothing.
C4_StopWithoutProcessIsNoOp ==
    \A t \in Threads :
        (ret[t].op = "stop" /\ NoRunningProcess(ret[t].pre, ret[t].sid))
        => StopWasNoOp(ret[t])

\* C4 amended: whenever the server has no record in the registry, Stop
\* returns failure and changes nothing (no process spawned, no command
\* sent, registry, console buffers and auth fields as before).
C4_StopUnregisteredIsNoOp ==
    \A t \in Threads :
        (ret[t].op = "stop" /\ ~Registered(ret[t].pre, ret[t].sid))
        => StopWasNoOp(ret[t])

\* Stop was called for a server that had run before and is no longer
\* registered.
C4_Witness ==
    \E t \in Threads :
        /\ ret[t].op = "stop"
        /\ ~Registered(ret[t].pre, ret[t].sid)
        /\ Len(ret[t].pre.pr) >= 1
        /\ ret[t].val = "False"

EscalationTraces ==
    LET stop == Step("stop", 0)
        term == Step("terminate", STOP_WAIT_TIMEOUT)
        kill == Step("kill", TERMINATE_WAIT_TIMEOUT)
    IN {<<stop>>, <<stop, term>>, <<stop, term, kill>>}

Stopping(t) ==
    th[t].pc \in {"stop_send", "stop_wait", "stop_terminated", "stop_del"}

EscalationInOrder ==
    \A t \in Threads :
        /\ (ret[t].op = "stop" /\ RegisteredAlive(ret[t].pre, ret[t].sid))
           => /\ ret[t].trace \in EscalationTraces
              /\ ret[t].val = "True" => ~Registered(ret[t].post, ret[t].sid)
        /\ (Stopping(t) /\ th[t].trace # <<>>)
           => th[t].trace \in EscalationTraces

\* C5: Stop on a registered server with a live process sends the "stop"
\* command first, terminates only after the 10 s wait has timed out, kills
\* only after the 5 s wait has timed out; a Stop that returns success leaves
\* no record; and every such Stop call returns.
C5_StopEscalatesAndReturns ==
    /\ []EscalationInOrder
    /\ \A t \in Threads : Stopping(t) ~> (th[t].pc = "idle")

\* A Stop that had to kill the process returned success.
C5_Witness ==
    \E t \in Threads :
        /\ ret[t].op = "stop" /\ ret[t].val = "True"
        /\ Len(ret[t].trace) = 3
        /\ ret[t].trace[3].step = "kill"

SendNothingWritten(snap, sid) ==
    \/ sid \notin DOMAIN snap.rs
    \/ snap.pr[snap.rs[sid].process].state # "alive"
    \/ ~snap.pr[snap.rs[sid].process].has_stdin

SendMustFail(snap, sid) ==
    \/ SendNothingWritten(snap, sid)
    \/ snap.pr[snap.rs[sid].process].pipe # "open"

\* C6: SendCommand returns True or False and never raises; it returns
\* failure when the server is not registered, its process has exited, it has
\* no stdin or the write fails; in the first three cases no stdin receives
\* anything; the registry is never changed.
C6_SendCommandFailsCleanly ==
    \A t \in Threads :
        LET r == ret[t] IN
        r.op = "send_command"
        => /\ r.val \in {"True", "False"}
           /\ SendMustFail(r.pre, r.sid) => r.val = "False"
           /\ SendNothingWritten(r.pre, r.sid) => r.post.pr = r.pre.pr
           /\ r.post.rs = r.pre.rs

\* A write to the broken pipe of a live process failed.
C6_Witness ==
    \E t \in Threads :
        /\ ret[t].op = "send_command" /\ ret[t].val = "False"
        /\ RegisteredAlive(ret[t].pre, ret[t].sid)

RECURSIVE Received(_, _)
Received(log, p) ==
    IF log = <<>> THEN <<>>
    ELSE (IF Head(log).process = p THEN <<Head(log).command, NEWLINE>>
          ELSE <<>>) \o Received(Tail(log), p)

\* C7: the stdin of every process holds exactly the commands of the
\* SendCommand calls that returned success for it, in call order, each
\* followed by one newline.
C7_StdinIsCommandsInOrder ==
    \A p \in DOMAIN procs : procs[p].stdin = Received(sent_log, p)

\* Two different commands reached one process, and a send failed as well.
C7_Witness ==
    /\ \E p \in DOMAIN procs :
           /\ Len(procs[p].stdin) >= 4
           /\ procs[p].stdin[1] # procs[p].stdin[3]
    /\ \E t \in Threads : ret[t].op = "send_command" /\ ret[t].val = "False"

(***************************************************************************)
(* Properties of the console monitor.                                      *)
(***************************************************************************)
Line(i) == consumed[i].line

\* Every line appended to the buffer of the run, the initial entry first.
Appended == InitialBuffer \o [i \in 1..Len(consumed) |-> Line(i)]

MostRecent(lines, count) ==
    IF Len(lines) > count
    THEN SubSeq(lines, Len(lines) - count + 1, Len(lines))
    ELSE lines

\* C8: the console buffer never holds more than 1000 entries, and it always
\* equals the most recent (up to 1000) appended lines in arrival order: a
\* line appended to a full buffer evicts the oldest entry.
C8_BufferKeepsMostRecent ==
    \A sid \in DOMAIN console_buffers :
        /\ Len(console_buffers[sid]) <= MAX_BUFFER_LINES
        /\ console_buffers[sid] = MostRecent(Appended, MAX_BUFFER_LINES)

\* More than 1000 lines were appended and the oldest ones are gone.
C8_Witness ==
    \E sid \in DOMAIN console_buffers :
        /\ Len(consumed) > MAX_BUFFER_LINES + 1
        /\ Len(console_buffers[sid]) = MAX_BUFFER_LINES
        /\ console_buffers[sid][1].n = Len(consumed) - MAX_BUFFER_LINES + 1

KindsAt(kind) == {i \in 1..Len(consumed) : Line(i).kind = kind}

RECURSIVE Count(_, _)
Count(seq, x) ==
    IF seq = <<>> THEN 0
    ELSE (IF Head(seq) = x THEN 1 ELSE 0) + Count(Tail(seq), x)

MonitoredProcess(sid) == procs[running_servers[sid].process]

\* The stream of the scenario: besides lines that match no pattern it holds
\* 'no credentials' trigger lines and at most one success line, the success
\* line after a trigger; a trigger repeated after the success line is
\* handled inside the cooldown window of the login command.
TriggerThenSuccess ==
    /\ \A i \in 1..Len(consumed) :
           Line(i).kind \in {"plain", "no_tokens", "success"}
    /\ KindsAt("no_tokens") # {}
    /\ Cardinality(KindsAt("success")) <= 1
    /\ \A s \in KindsAt("success") :
           /\ \E i \in KindsAt("no_tokens") : i < s
           /\ \A i \in KindsAt("no_tokens") :
                  (i > s /\ logins # <<>>)
                  => consumed[i].at + 1 - logins[1].at < AUTH_LOGIN_COOLDOWN

\* C9: on a running server, a stream with a 'no credentials' trigger line
\* followed later by a success line takes the auth state through
\* Unauthenticated, LoginRequested, Authenticating, Authenticated in that
\* order and writes exactly one '/auth login device' and exactly one
\* '/auth persistence <mode>' command to stdin, however often the trigger
\* line is repeated within the cooldown window.
C9_LoginFlowIssuesEachCommandOnce ==
    \A sid \in DOMAIN running_servers :
        (TriggerThenSuccess /\ MonitoredProcess(sid).state = "alive")
        => LET stdin == MonitoredProcess(sid).stdin IN
           /\ Count(stdin, "/auth login device") = 1
           /\ IF KindsAt("success") # {}
              THEN /\ auth_trace = <<"Unauthenticated", "LoginRequested",
                                     "Authenticating", "Authenticated">>
                   /\ Count(stdin, PersistenceCommand("Encrypted")) = 1
              ELSE /\ auth_trace = <<"Unauthenticated", "LoginRequested">>
                   /\ Count(stdin, PersistenceCommand("Encrypted")) = 0

\* The trigger line came twice, then the success line.
C9_Witness ==
    /\ TriggerThenSuccess
    /\ Cardinality(KindsAt("no_tokens")) >= 2
    /\ KindsAt("success") # {}
    /\ \A sid \in DOMAIN running_servers :
           MonitoredProcess(sid).state = "alive"

\* C10: no automatic '/auth login device' command is written within 20 s of
\* the previous one that was written, nor while a device URL is pending
\* (auth_pending with a recorded auth_url).
C10_LoginCooldownRespected ==
    \A i \in 1..Len(logins) :
        /\ ~logins[i].url_pending
        /\ i > 1 => logins[i].at - logins[i - 1].at >= AUTH_LOGIN_COOLDOWN

\* A second automatic login command was written after the cooldown.
C10_Witness == Len(logins) >= 2

(***************************************************************************)
(* Properties of the persistence retry.                                    *)
(***************************************************************************)
IsPersistenceCommand(text) ==
    \E i \in 1..Len(CandidateTypes) : text = PersistenceCommand(CandidateTypes[i])

\* The '/auth persistence ...' commands written to the server's stdin.
PersistenceIssued(info, pr) == SelectSeq(pr[info.process].stdin, IsPersistenceCommand)

PersistenceOutstanding(info) ==
    /\ info.auth_persistence_attempted
    /\ ~info.auth_persistence_done
    /\ ~info.auth_persistence_exhausted

LastConsumed == consumed[Len(consumed)].line.kind

PersistenceRetryStep(sid) ==
    LET before == running_servers[sid]
        after == running_servers'[sid]
        types == before.auth_persistence_types
        issued == PersistenceIssued(before, procs)
        issued_after == PersistenceIssued(after, procs')
        rejected == /\ consumed' # consumed
                    /\ consumed'[Len(consumed')].line.kind = "persistence_unknown"
                    /\ PersistenceOutstanding(before)
    IN /\ after.auth_persistence_index <= Len(types)
       /\ after.auth_persistence_types = types
       /\ IF rejected
          THEN /\ after.auth_persistence_index = before.auth_persistence_index + 1
               /\ IF after.auth_persistence_index < Len(types)
                  THEN /\ issued_after = Append(issued,
                              PersistenceCommand(
                                  types[after.auth_persistence_index + 1]))
                       /\ ~after.auth_persistence_exhausted
                  ELSE /\ issued_after = issued
                       /\ after.auth_persistence_exhausted
          ELSE after.auth_persistence_index = before.auth_persistence_index
       /\ before.auth_persistence_exhausted
          => /\ after.auth_persistence_exhausted
             /\ issued_after = issued

\* C11: each 'unknown persistence type' line received while an attempt is
\* outstanding advances the candidate index by exactly one and writes the
\* persistence command of the next candidate; when the index reaches the
\* end of the list the exhausted flag is set instead, and from then on no
\* '/auth persistence' command is written whatever lines follow; the index
\* changes in no other way and never exceeds the length of the list.
C11_PersistenceRetryAdvancesAndStops ==
    [][\A sid \in ServerIds : PersistenceRetryStep(sid)]_vars

\* Both candidates of a two-element list were tried and rejected, and a
\* further line was processed after the list was exhausted.
C11_Witness ==
    \E sid \in DOMAIN running_servers :
        LET info == running_servers[sid] IN
        /\ Len(info.auth_persistence_types) = 2
        /\ info.auth_persistence_exhausted
        /\ info.auth_persistence_index = 2
        /\ Len(PersistenceIssued(info, procs)) = 2
        /\ consumed # <<>>
        /\ LastConsumed # "persistence_unknown"

(***************************************************************************)
(* Properties of the auth_required broadcast.                              *)
(***************************************************************************)
AuthRequiredAt == {i \in 1..Len(emits) : emits[i][1] = "auth_required"}

\* A success or status-ok line was processed between two emitted events.
AuthResetBetween(i, j) ==
    \E k \in (i + 1)..(j - 1) :
        /\ emits[k][1] = "console_output"
        /\ emits[k][2].kind \in {"success", "status_ok"}

\* C12: two auth_required broadcasts that follow one another carry different
\* payloads unless a success or status-ok line came between them: a prompt
\* detected again with the payload last broadcast is not broadcast again.
C12_AuthRequiredDeduplicated ==
    \A i \in AuthRequiredAt, j \in AuthRequiredAt :
        (/\ i < j
         /\ emits[i][2] = emits[j][2]
         /\ \A k \in AuthRequiredAt : ~(i < k /\ k < j))
        => AuthResetBetween(i, j)

\* The same device URL was printed twice in a row and broadcast once.
C12_Witness ==
    /\ Len(consumed) = 2
    /\ \A i \in 1..2 : consumed[i].line.kind = "url"
    /\ Cardinality(AuthRequiredAt) = 1

(***************************************************************************)
(* Properties of the webhook queue and of the delivery.                    *)
(***************************************************************************)
Eligible == SelectSeq(offered, LAMBDA o : o.eligible)

\* The entries dispatched for enqueuing, oldest first.
Dispatched == [i \in 1..Len(Eligible) |-> Eligible[i].entry]

\* The worker has taken nothing from the queue so far.
NoDequeue == worker.pc = "idle" /\ deliveries = <<>>

Range(seq) == {seq[i] : i \in 1..Len(seq)}

\* Every dispatched entry is in the queue, was evicted, or went to the worker.
Taken == Range(webhook_queue) \cup Range(evicted)
             \cup {d.entry : d \in Range(deliveries)}
             \cup (IF worker.pc = "sending" THEN {worker.entry} ELSE {})

\* C13: the queue never holds more than its capacity; between dispatches,
\* every dispatched entry was admitted (none is lost to a full queue), the
\* queue holds the most recent dispatched entries in order when the worker
\* has taken none, and dropped_total is the number of entries evicted.
C13_WebhookQueueBoundedDropsOldest ==
    /\ Len(webhook_queue) <= QueueCapacity
    /\ dispatcher.pc = "idle"
       => /\ Range(Dispatched) = Taken
          /\ NoDequeue => webhook_queue = MostRecent(Dispatched, QueueCapacity)
          /\ webhook_diag.dropped_total = Len(evicted)

ClampSeconds(v) ==
    IF v < RETRY_AFTER_MIN THEN RETRY_AFTER_MIN
    ELSE IF v > RETRY_AFTER_MAX THEN RETRY_AFTER_MAX
    ELSE v

\* The delays a 429 response asks for: the number of seconds its header or
\* its body gives, clamped; one second when it gives no number.
RequestedWaits(response) ==
    LET given == {t.value : t \in {u \in {response.header, response.body} :
                                       u.kind = "number"}}
    IN IF given = {} THEN {RETRY_AFTER_MIN}
       ELSE {ClampSeconds(v) : v \in given}

\* The attempts of every delivery, ended or in progress.
AttemptTraces ==
    {d.trace : d \in Range(deliveries)}
        \cup (IF worker.pc = "sending" THEN {worker.trace} ELSE {})

\* C14: a 429 answer to one of the first three attempts is followed by a
\* wait of the requested delay clamped to [1, 30] s (1 s when none is given)
\* and another attempt; a delivery answered with 429 every time ends after
\* exactly 4 attempts as a failure that adds one to failed_total and one to
\* rate_limited_total.
C14_RateLimitedDeliveryWaitsAndGivesUp ==
    /\ \A trace \in AttemptTraces : \A i \in 1..Len(trace) :
           (trace[i].response.status = 429 /\ i < WEBHOOK_MAX_ATTEMPTS)
           => /\ trace[i].outcome = "retry"
              /\ trace[i].wait \in RequestedWaits(trace[i].response)
    /\ \A d \in Range(deliveries) :
           (\A i \in 1..Len(d.trace) : d.trace[i].response.status = 429)
           => /\ Len(d.trace) = WEBHOOK_MAX_ATTEMPTS
              /\ d.outcome = "failed"
              /\ d.after.failed_total = d.before.failed_total + 1
              /\ d.after.rate_limited_total = d.before.rate_limited_total + 1


(***************************************************************************)
(* C15: the log tailer follows the newest log file and replays nothing.    *)
(***************************************************************************)
\* The lines the tailer has put on the queue, as (file, place) pairs.
TailedLines ==
    [i \in {j \in 1..Len(queued) : queued[j].type = "log"} |->
        <<queued[i].line.file, queued[i].line.idx>>]

\* No line of any file has been put on the queue twice.
NothingReplayed ==
    \A i, j \in DOMAIN TailedLines :
        TailedLines[i] = TailedLines[j] => i = j

\* Once the tailer has polled after the last write and found nothing to
\* read, it holds the newest file and has read it to the end.
FollowsNewest ==
    (caught_up /\ LogCandidates # {}) =>
        /\ tailer.file = log_dir[NewestLog]
        /\ tailer.pos = log_files[tailer.file].lines

\* C15: while the instance is registered, after a log file is created or
\* the active log is rotated the tailer switches to the new file and emits
\* its lines, and no line already emitted, from this file or from one
\* tailed earlier, is emitted again.
C15_TailerFollowsRotationWithoutReplay ==
    ("srv" \in DOMAIN running_servers) => (NothingReplayed /\ FollowsNewest)


(***************************************************************************)
(* C16: each source's lines keep their order on the way to the console.    *)
(***************************************************************************)
Sources == Pipes \cup {"log"}

IsFrom(line, source) == "src" \in DOMAIN line /\ line.src = source

\* The numbers, within their source, of the lines of one source.
NumbersFrom(lines, source) ==
    LET from == SelectSeq(lines, LAMBDA line : IsFrom(line, source))
    IN [i \in DOMAIN from |-> from[i].n]

Consecutive(numbers) ==
    \A i \in DOMAIN numbers : i > 1 => numbers[i] = numbers[i - 1] + 1

\* The lines broadcast as console_output, in the order of the broadcasts.
Broadcast ==
    LET outputs == SelectSeq(emits, LAMBDA e : e[1] = "console_output")
    IN [i \in DOMAIN outputs |-> outputs[i][2]]

\* C16: under any interleaving of the stdout reader, the stderr reader and
\* the log tailer, the lines of each source appear in the console buffer
\* and in the broadcast sequence in the order the source produced them
\* (the broadcasts of a source are its first lines, one after the other,
\* and the buffer holds a run of consecutive ones).
C16_SourceOrderPreserved ==
    \A source \in Sources :
        /\ \A sid \in DOMAIN console_buffers :
               Consecutive(NumbersFrom(console_buffers[sid], source))
        /\ LET numbers == NumbersFrom(Broadcast, source)
           IN \A i \in DOMAIN numbers : numbers[i] = i

\* The three sources have been interleaved: the console shows a log line
\* first, then both stdout lines with a stderr line between them.
C16_Witness ==
    LET buffer == console_buffers["srv"]
    IN /\ Len(buffer) >= 5
       /\ IsFrom(buffer[2], "log")
       /\ IsFrom(buffer[3], "stdout")
       /\ IsFrom(buffer[4], "stderr")
       /\ IsFrom(buffer[5], "stdout")
       /\ NumbersFrom(Broadcast, "stdout") = <<1, 2>>


(***************************************************************************)
(* C17: destroying a record clears the process handle and the buffer.      *)
(***************************************************************************)
\* The call destroyed the record: Stop returned success, or IsRunning found
\* the record with an exited process.
DestroyedRecord(r) ==
    \/ r.op = "stop" /\ r.val = "True"
    \/ r.op = "is_running" /\ r.val = "False" /\ Registered(r.pre, r.sid)

BufferCleared(snap, sid) ==
    sid \in DOMAIN snap.cb => snap.cb[sid] = <<>>

\* C17: after Stop has returned success, or IsRunning has detected that the
\* process exited, the registry has no record for the ID and the console
\* buffer for the ID is empty or absent.
C17_DestroyedRecordClearsBuffer ==
    \A t \in Threads :
        DestroyedRecord(ret[t])
        => /\ ~Registered(ret[t].post, ret[t].sid)
           /\ BufferCleared(ret[t].post, ret[t].sid)

(***************************************************************************)
(* C18: when Start succeeds and when it is rejected as already running.    *)
(***************************************************************************)
SpawnFailed(r) == r.trace = <<Step("spawn_failed", 0)>>

RejectedAsRunning(r) == r.trace = <<Step("already_running", 0)>>

\* C18: Start returns success whenever the instance has no running
\* process, the jar and the assets exist and the spawn succeeds, and it is
\* rejected as already running only when a running process exists for the
\* ID.
C18_StartSucceedsUnlessRunning ==
    \A t \in Threads :
        LET r == ret[t] IN
        r.op = "start"
        => /\ (NoRunningProcess(r.pre, r.sid) /\ r.pre.fl[r.sid]
               /\ ~SpawnFailed(r))
              => r.val = "True"
           /\ RejectedAsRunning(r) => RegisteredAlive(r.pre, r.sid)


(***************************************************************************)
(* C19: a Start that fails leaves nothing behind.                          *)
(***************************************************************************)
StartFailures ==
    {<<Step("already_running", 0)>>, <<Step("missing_files", 0)>>,
     <<Step("spawn_failed", 0)>>}

\* C19: whenever Start returns failure (instance already registered, a
\* required file missing, or the spawn raising an error), the registry and
\* the console buffers are exactly as before the call, no process has been
\* added, and no reader, monitor or tailer thread has been started.
C19_FailedStartLeavesNoResidue ==
    \A t \in Threads :
        LET r == ret[t] IN
        (r.op = "start" /\ r.val = "False")
        => /\ r.trace \in StartFailures
           /\ r.post.rs = r.pre.rs
           /\ r.post.cb = r.pre.cb
           /\ r.post.pr = r.pre.pr

\* The spawn raised for a server that had run before, with its old console
\* buffer still in place.
C19_Witness ==
    \E t \in Threads :
        /\ ret[t].op = "start" /\ ret[t].val = "False"
        /\ SpawnFailed(ret[t])
        /\ ret[t].sid \in DOMAIN ret[t].pre.cb
        /\ \E p \in DOMAIN ret[t].post.pr :
               ret[t].post.pr[p].threads = BackgroundThreads


(***************************************************************************)
(* C20: the bridge loop after a close or an error of the connection.       *)
(***************************************************************************)
\* on_close or on_error has run and run_forever has not yet returned.
JustDisconnected == bridge.pc = "closed"

\* The keepalive has been told to stop, and the status is false and has
\* been broadcast as false.
DisconnectNoted ==
    /\ bridge.ping_stop
    /\ gotale_status = SetStatus("False")

\* A close or error that no connection attempt has followed yet.
AwaitingAttempt == bridge.event # "none"

\* The loop has ended only if the stop flag is set.
EndsOnlyWhenStopped == bridge.pc = "done" => stop_event

UndelayedIsFallback ==
    (bridge.pc = "connecting" /\ bridge.delay # RECONNECT_DELAY)
    => bridge.candidate > 1

Removes(t) ==
    /\ th[t].pc \in {"stop_del", "run_cleanup"}
    /\ th[t].sid \in DOMAIN running_servers
    /\ th[t].sid \notin DOMAIN running_servers'

\* The record deleted is the one of the process the call found exited or
\* has stopped, not one a later Start has registered.
RemovesObserved(t) ==
    Removes(t) => running_servers[th[t].sid].process = th[t].process

\* C21: under any interleaving of IsRunning, Stop and Start calls for one
\* ID, the removal done by IsRunning or by Stop removes only the record of
\* the process the call observed as exited or stopped, never the record a
\* later Start has registered (so that a live process stays registered).
C21_RemovalOnlyOfObservedRecord ==
    [][\A t \in Threads : RemovesObserved(t)]_vars


(***************************************************************************)
(* C22: one console monitor and one log tailer per server ID.              *)
(***************************************************************************)
\* The runs of the server whose thread of the given kind has not ended.
ActiveRuns(sid, thread) ==
    {p \in DOMAIN procs : procs[p].sid = sid /\ thread \in procs[p].threads}

\* C22: across any sequence of Start, Stop, exit detection and restart, at
\* any time at most one console monitor and at most one log tailer are
\* active per server ID (the ones of an earlier run have terminated after
\* that run's record was removed), so the console buffer has one writer.
C22_OneMonitorAndTailerPerServer ==
    \A sid \in ServerIds :
        /\ Cardinality(ActiveRuns(sid, "monitor")) <= 1
        /\ Cardinality(ActiveRuns(sid, "log_tail")) <= 1


(***************************************************************************)
(* C24: the attempts of one webhook delivery.                              *)
(***************************************************************************)
\* The answers _send_webhook tries again after: rate limiting, a server
\* error, no answer at all.
Retried(response) ==
    response.status = 429 \/ response.status = 0 \/ response.status \in 500..599

\* What the attempt numbered i of a delivery must end as, given its answer.
AttemptFollowsRules(trace, i) ==
    LET response == trace[i].response
    IN /\ response.status = 200 => trace[i].outcome = "sent"
       /\ (Retried(response) /\ i < WEBHOOK_MAX_ATTEMPTS)
          => /\ trace[i].outcome = "retry"
             /\ response.status # 429 => trace[i].wait = i
       /\ (response.status # 200 /\ ~Retried(response))
          => trace[i].outcome = "failed"
       /\ (response.status # 200 /\ i = WEBHOOK_MAX_ATTEMPTS)
          => trace[i].outcome = "failed"

\* C24: a delivery makes at most 4 attempts; a 2xx answer ends it as sent;
\* 429, 5xx and transport errors are retried while fewer than 4 attempts were
\* made (5xx and transport errors after a wait of attempt-number seconds);
\* any other error status ends it as failed after that single attempt; the
\* 4th failed attempt ends it as failed.
C24_DeliveryAttemptRules ==
    /\ \A trace \in AttemptTraces :
           /\ Len(trace) <= WEBHOOK_MAX_ATTEMPTS
           /\ \A i \in 1..Len(trace) : AttemptFollowsRules(trace, i)
    /\ \A d \in Range(deliveries) : d.outcome \in {"sent", "failed"}



(***************************************************************************)
(* C28: the device-login fields of a server record.                        *)
(***************************************************************************)
\* What get_server_auth_status reports when no login is in progress.
AuthCleared(info) ==
    /\ ~info.auth_pending
    /\ info.auth_url = None
    /\ info.auth_code = None

LastLineKind == consumed[Len(consumed)].line.kind

\* C28: once the monitor has finished a console line, a record with an
\* auth_url or an auth_code has auth_pending set; a success line and a
\* status-ok line leave auth_pending, auth_url and auth_code all cleared.
C28_AuthFieldsConsistent ==
    \A sid \in DOMAIN running_servers :
        LET info == running_servers[sid]
        IN /\ (info.auth_url # None \/ info.auth_code # None)
              => info.auth_pending
           /\ (consumed # <<>> /\ LastLineKind \in {"success", "status_ok"})
              => AuthCleared(info)

\* A code line set the three fields and the success line after it cleared
\* them.
C28_Witness ==
    /\ Len(consumed) = 2
    /\ consumed[1].line.kind = "code"
    /\ consumed[2].line.kind = "success"
    /\ \A sid \in DOMAIN running_servers : AuthCleared(running_servers[sid])



(***************************************************************************)
(* C25: concurrent ensure_bridge calls.                                    *)
(***************************************************************************)
\* The bridge threads alive: the registered one and those it displaced.
BridgeThreadsAlive == ensure.displaced + (IF BridgeAlive THEN 1 ELSE 0)

\* A caller that has replaced the stop flag and is about to start a thread.
Creating(t) == ensure.pc[t] = "create"

\* C25: whatever the interleaving of ensure_bridge calls with bridging
\* enabled, at most one bridge thread is alive, and a call that finds a
\* bridge thread alive neither replaces the stop flag nor creates a thread.
C25_OneBridgeThread ==
    /\ BridgeThreadsAlive <= 1
    /\ \A t \in Threads : Creating(t) => ~BridgeAlive

\* Two calls overlapped: one waits for the lock the other holds after it
\* has found no thread alive.
C25_Witness ==
    \E t, u \in Threads :
        /\ Creating(t)
        /\ ensure.pc[u] = "acquire"



(***************************************************************************)
(* C26: Stop of a live process against concurrent is_server_running polls. *)
(***************************************************************************)
\* Thread t returns from a Stop that found a record with a live process
\* (it wrote the stop command and waited for the exit).
StopOfLiveProcessReturns(t) ==
    /\ th[t].pc = "stop_del"
    /\ th[t].trace # <<>>
    /\ th'[t].pc = "idle"

\* C26: a Stop that found the instance registered with a live process
\* returns success, whatever the other thread does meanwhile.
C26_StopOfLiveProcessSucceeds ==
    [][\A t \in Threads :
           StopOfLiveProcessReturns(t) => ret'[t].val = "True"]_vars


(***************************************************************************)
(* C29: the accounting of the webhook counters.                            *)
(***************************************************************************)
\* The delivery added one to exactly one of sent_total and failed_total.
CountedOnce(d) ==
    \/ /\ d.after.sent_total = d.before.sent_total + 1
       /\ d.after.failed_total = d.before.failed_total
    \/ /\ d.after.sent_total = d.before.sent_total
       /\ d.after.failed_total = d.before.failed_total + 1

BeingDelivered == IF worker.pc = "sending" THEN 1 ELSE 0

\* C29: every entry the worker took from the queue ended with one added to
\* sent_total or one added to failed_total, never both and never neither;
\* so enqueued_total = sent_total + failed_total + the entries evicted + the
\* entries still queued + the entry being delivered.
C29_EveryEntryAccountedFor ==
    /\ \A d \in Range(deliveries) : CountedOnce(d)
    /\ webhook_diag.enqueued_total =
           webhook_diag.sent_total + webhook_diag.failed_total
               + Len(evicted) + Len(webhook_queue) + BeingDelivered



(***************************************************************************)
(* C30: what is put on the output queue reaches the console.               *)
(***************************************************************************)
\* The lines the pipe readers can put on the queue in all.
MaxQueued == Cardinality(Pipes) * MaxPipeLines

\* The queue is first in, first out: its n-th entry is the n-th line the
\* monitor appends to the buffer and broadcasts.
Shown(n) == Len(consumed) >= n /\ Len(Broadcast) >= n

\* C30: every line put on the output queue is eventually appended to the
\* console buffer and broadcast.
C30_QueuedOutputReachesConsole ==
    \A n \in 1..MaxQueued : (Len(queued) >= n) ~> Shown(n)



(***************************************************************************)
(* C23: the changes of the status label.                                   *)
(***************************************************************************)
LabelChanges ==
    {<<"offline", "starting">>, <<"starting", "online">>,
     <<"starting", "offline">>, <<"online", "stopping">>,
     <<"stopping", "offline">>}

\* monitor_servers finds a server it has read as online or starting not
\* running.
CrashDetected ==
    /\ route.poll.pc = "polling"
    /\ route'.poll.pc = "crashed"

\* C23: every change of the label made by the routes and by monitor_servers
\* is offline->starting, starting->online, starting->offline,
\* online->stopping, stopping->offline, or a change to offline on a
\* detected crash.
C23_LabelChangesAreLegal ==
    [][route'.status # route.status
           => \/ <<route.status, route'.status>> \in LabelChanges
              \/ CrashDetected /\ route'.status = "offline"]_vars

(***************************************************************************)
(* C27: the stop route against monitor_servers.                            *)
(***************************************************************************)
\* The stop route and monitor_servers are between two rounds.
RoutesIdle == route.request.pc = "idle" /\ route.poll.pc = "idle"

StoppedByOperator ==
    \E p \in DOMAIN procs : ToldToStop(p) /\ procs[p].state = "exited"

\* C27: when processes exit only because the stop route stopped them, the
\* crash handler is never invoked, and once the stop route has returned the
\* label is 'offline'.
C27_OperatorStopIsNoCrash ==
    /\ route.crashes = 0
    /\ (RoutesIdle /\ StoppedByOperator) => route.status = "offline"


====
